---- MODULE Spec2Model ----
(***************************************************************************)
(* A model of asciinema2md: the terminal emulator (terminal.py) and the    *)
(* event-driven command extractors (command_extractor.py,                  *)
(* event_processor.py).                                                    *)
(*                                                                         *)
(* Text is a sequence of characters; a character is a one-element token:   *)
(* a printable ASCII character is the string holding it ("a", "[", " "),   *)
(* a control character is named (ESC, BEL, BS, TAB, LF, CR) and the three  *)
(* box-drawing glyphs of the shell prompt are BOXTL, BOXH and BOXBL.       *)
(***************************************************************************)
EXTENDS Integers, Sequences, FiniteSets, TLC

\* ------------------------------------------------------------------------
\* Bounds of the model
\* ------------------------------------------------------------------------
MaxWidth == 3
MaxHeight == 2
MaxCap == 2
MaxLines == 3
MaxCol == 2
MaxLFs == 6
MaxFeeds == 4
MaxSplitFeeds == 2
\* The longest run of keystroke chunks and of output chunks of a session.
MaxKeys == 3
MaxOuts == 2
\* The most pieces of a text handed to strip_ansi.
MaxPieces == 3
\* The most commands of a recorded session, and the length of a burst of
\* input events.
MaxCommands == 2
MaxInputs == 19

\* The most events between a command and the last line of its output.
MaxBetween == 101

\* The most commands of a session whose command lines contain one another.
MaxSeen == 3

\* Constants of the program
MaxCommandLen == 500
MaxCommandSpaces == 100
\* The windows of DirectExtractor, in events: the look-ahead for a command's
\* output, the look-ahead for the command that follows a prompt, the
\* look-behind for the typed prefix of a suggestion; and the seconds within
\* which a repeated command is dropped.
LookAhead == 100
PromptLookAhead == 50
LookBehind == 20
RepeatWindow == 2
\* The grid of the Terminal when the header of the cast file gives none,
\* and the cap of its scrollback.
DefaultWidth == 80
DefaultHeight == 24
DefaultScrollback == 10000
\* The least length of a command that the filter of process_cast_file keeps.
MinCommandLength == 3
\* The number of events that debug_extractor.py feeds.
DebugEvents == 100

\* ------------------------------------------------------------------------
\* Characters
\* ------------------------------------------------------------------------
ESC == "ESC"
BEL == "BEL"
BS == "BS"
TAB == "TAB"
LF == "LF"
CR == "CR"
BOXTL == "BOXTL"
BOXH == "BOXH"
BOXBL == "BOXBL"

Digits == {"0", "1", "2", "3", "4", "5", "6", "7", "8", "9"}
Lower == {"a", "b", "c", "d", "e", "f", "g", "h", "i", "j", "k", "l", "m", "n", "o", "p", "q", "r", "s", "t", "u", "v", "w", "x", "y", "z"}
Upper == {"A", "B", "C", "D", "E", "F", "G", "H", "I", "J", "K", "L", "M", "N", "O", "P", "Q", "R", "S", "T", "U", "V", "W", "X", "Y", "Z"}
Alpha == Lower \cup Upper

\* The final bytes at which terminal.py stops reading a CSI sequence.
CsiFinal == {"A", "B", "C", "D", "E", "F", "G", "H", "J", "K", "S", "T", "f", "m", "s", "u"}

Max(a, b) == IF a >= b THEN a ELSE b
Min(a, b) == IF a <= b THEN a ELSE b

DigitVal(c) == CASE c = "0" -> 0 [] c = "1" -> 1 [] c = "2" -> 2 [] c = "3" -> 3 [] c = "4" -> 4 [] c = "5" -> 5 [] c = "6" -> 6 [] c = "7" -> 7 [] c = "8" -> 8 [] c = "9" -> 9

\* str.isdigit(): non-empty and every character a digit.
IsDigitStr(s) == Len(s) > 0 /\ \A k \in 1..Len(s) : s[k] \in Digits

RECURSIVE ToInt(_)
\* int(s) of a digit string.
ToInt(s) == IF Len(s) = 0 THEN 0 ELSE 10 * ToInt(SubSeq(s, 1, Len(s) - 1)) + DigitVal(s[Len(s)])

\* ------------------------------------------------------------------------
\* Terminal (terminal.py)
\* ------------------------------------------------------------------------
\* A Terminal object: its fields, and raised = TRUE once an exception has
\* escaped from one of its methods (the fields then hold what the method
\* had written before the exception).  evicted is a history field: every
\* row ever appended to scrollback, in order; no code reads it.
Terminal__init__(w, h, cap) == [width |-> w, height |-> h, lines |-> << <<>> >>, scrollback |-> <<>>, current_line |-> 0, cursor_x |-> 0, scrollback_size |-> cap, raised |-> FALSE, evicted |-> <<>>]

\* Python's list indexing: seq[k] is defined for -len <= k < len.
PyIndexOK(seq, k) == -Len(seq) <= k /\ k < Len(seq)
PyGet(seq, k) == IF k >= 0 THEN seq[k + 1] ELSE seq[Len(seq) + k + 1]
PySet(seq, k, v) == IF k >= 0 THEN [seq EXCEPT ![k + 1] = v] ELSE [seq EXCEPT ![Len(seq) + k + 1] = v]

Blanks(n) == [k \in 1..n |-> " "]
EmptyLines(n) == [k \in 1..n |-> <<>>]

\* _write_char with the character inserted before the column instead of stored at it.
WriteCharInserts(t, ch) ==
  LET grown == IF t.current_line >= Len(t.lines) THEN t.lines \o EmptyLines(t.current_line - Len(t.lines) + 1) ELSE t.lines
  IN IF ~PyIndexOK(grown, t.current_line) THEN [t EXCEPT !.lines = grown, !.raised = TRUE]
     ELSE LET line == PyGet(grown, t.current_line)
              padded == IF Len(line) <= t.cursor_x THEN line \o Blanks(t.cursor_x + 1 - Len(line)) ELSE line
              written == SubSeq(padded, 1, t.cursor_x) \o <<ch>> \o SubSeq(padded, IF Len(line) <= t.cursor_x THEN t.cursor_x + 2 ELSE t.cursor_x + 1, Len(padded))
              stored == PySet(grown, t.current_line, written)
              x == t.cursor_x + 1
          IN IF x >= t.width
             THEN IF t.current_line < Len(stored) - 1
                  THEN [t EXCEPT !.lines = stored, !.cursor_x = 0, !.current_line = t.current_line + 1]
                  ELSE [t EXCEPT !.lines = Append(stored, <<>>), !.cursor_x = 0, !.current_line = Len(stored)]
             ELSE [t EXCEPT !.lines = stored, !.cursor_x = x]

\* Terminal._write_char
WriteChar(t, ch) ==
  LET grown == IF t.current_line >= Len(t.lines) THEN t.lines \o EmptyLines(t.current_line - Len(t.lines) + 1) ELSE t.lines
  IN IF ~PyIndexOK(grown, t.current_line) THEN [t EXCEPT !.lines = grown, !.raised = TRUE]
     ELSE LET line == PyGet(grown, t.current_line)
              padded == IF Len(line) <= t.cursor_x THEN line \o Blanks(t.cursor_x + 1 - Len(line)) ELSE line
              written == [padded EXCEPT ![t.cursor_x + 1] = ch]
              stored == PySet(grown, t.current_line, written)
              x == t.cursor_x + 1
          IN IF x >= t.width
             THEN IF t.current_line < Len(stored) - 1
                  THEN [t EXCEPT !.lines = stored, !.cursor_x = 0, !.current_line = t.current_line + 1]
                  ELSE [t EXCEPT !.lines = Append(stored, <<>>), !.cursor_x = 0, !.current_line = Len(stored)]
             ELSE [t EXCEPT !.lines = stored, !.cursor_x = x]

RECURSIVE WriteChars(_, _, _)
\* n calls of _write_char(ch), as the Tab branch of process_text makes them.
WriteChars(t, ch, n) == IF n = 0 \/ t.raised THEN t ELSE WriteChars(WriteChar(t, ch), ch, n - 1)

\* Terminal._clear_to_eol
ClearToEol(t) ==
  IF t.current_line < Len(t.lines)
  THEN IF ~PyIndexOK(t.lines, t.current_line) THEN [t EXCEPT !.raised = TRUE]
       ELSE LET line == PyGet(t.lines, t.current_line)
            IN IF t.cursor_x < Len(line) THEN [t EXCEPT !.lines = PySet(t.lines, t.current_line, SubSeq(line, 1, t.cursor_x))] ELSE t
  ELSE t

\* The line-feed branch with the top row dropped instead of moved to scrollback.
LineFeedDropsTop(t) ==
  LET moved == IF t.current_line >= t.height - 1
               THEN IF Len(t.lines) > 0
                    THEN [t EXCEPT !.lines = Tail(t.lines), !.evicted = Append(t.evicted, t.lines[1])]
                    ELSE t
               ELSE [t EXCEPT !.lines = IF t.current_line >= Len(t.lines) - 1 THEN Append(t.lines, <<>>) ELSE t.lines,
                              !.current_line = t.current_line + 1]
  IN [moved EXCEPT !.cursor_x = 0]

\* LineFeed with the trim keeping the oldest rows (scrollback[:size]).
LineFeedKeepsOldest(t) ==
  LET moved == IF t.current_line >= t.height - 1
               THEN IF Len(t.lines) > 0
                    THEN LET sb == Append(t.scrollback, t.lines[1])
                         IN [t EXCEPT !.scrollback = IF Len(sb) > t.scrollback_size THEN SubSeq(sb, 1, t.scrollback_size) ELSE sb,
                                      !.lines = Tail(t.lines),
                                      !.evicted = Append(t.evicted, t.lines[1])]
                    ELSE t
               ELSE [t EXCEPT !.lines = IF t.current_line >= Len(t.lines) - 1 THEN Append(t.lines, <<>>) ELSE t.lines,
                              !.current_line = t.current_line + 1]
  IN [moved EXCEPT !.cursor_x = 0]

\* The line-feed branch of process_text.
LineFeed(t) ==
  LET moved == IF t.current_line >= t.height - 1
               THEN IF Len(t.lines) > 0
                    THEN LET sb == Append(t.scrollback, t.lines[1])
                         IN [t EXCEPT !.scrollback = IF Len(sb) > t.scrollback_size THEN SubSeq(sb, Len(sb) - t.scrollback_size + 1, Len(sb)) ELSE sb,
                                      !.lines = Tail(t.lines),
                                      !.evicted = Append(t.evicted, t.lines[1])]
                    ELSE t
               ELSE [t EXCEPT !.lines = IF t.current_line >= Len(t.lines) - 1 THEN Append(t.lines, <<>>) ELSE t.lines,
                              !.current_line = t.current_line + 1]
  IN [moved EXCEPT !.cursor_x = 0]

\* The least member of a set of integers (none when the set is empty).
Least(set, none) == IF set = {} THEN none ELSE CHOOSE k \in set : \A m \in set : k <= m

\* The least index from i on at which s has a character for which the
\* test holds (the test is that of membership in set when inside is true,
\* of its negation otherwise); i when i is past the end, else Len(s) + 1
\* when there is none.
FirstAt(s, i, set, inside) ==
  Least({k \in i..Len(s) : (s[k] \in set) = inside}, IF i > Len(s) THEN i ELSE Len(s) + 1)

\* The index of the first final byte of text at or after i (Len(text) + 1 if none).
CsiEnd(text, i) == FirstAt(text, i, CsiFinal, TRUE)

RECURSIVE CsiParams(_, _, _, _)
\* The parameter list of text[i..j-1]: the non-empty strings between ';'.
CsiParams(text, i, j, cur) ==
  IF i >= j THEN (IF Len(cur) > 0 THEN << cur >> ELSE <<>>)
  ELSE IF text[i] = ";" THEN (IF Len(cur) > 0 THEN << cur >> ELSE <<>>) \o CsiParams(text, i + 1, j, <<>>)
       ELSE CsiParams(text, i + 1, j, Append(cur, text[i]))

\* int(params[0]) if params and params[0].isdigit() else 1
MoveCount(params) == IF Len(params) > 0 /\ IsDigitStr(params[1]) THEN ToInt(params[1]) ELSE 1

RECURSIVE BlankBelow(_)
\* The loop of the erase-display branch: blank every row below the cursor.
BlankBelow(t) == IF t.current_line < Len(t.lines) - 1 THEN BlankBelow([t EXCEPT !.current_line = t.current_line + 1, !.lines = PySet(t.lines, t.current_line + 1, <<>>)]) ELSE t

\* ApplyCsi with an erase of the whole screen that clears scrollback too.
ApplyCsiErasesScrollback(t, cmd, params) ==
  LET n == MoveCount(params)
  IN CASE cmd = "A" -> [t EXCEPT !.current_line = Max(0, t.current_line - n)]
       [] cmd = "B" -> [t EXCEPT !.current_line = Min(Len(t.lines) - 1, t.current_line + n)]
       [] cmd = "C" -> [t EXCEPT !.cursor_x = t.cursor_x + n]
       [] cmd = "D" -> [t EXCEPT !.cursor_x = Max(0, t.cursor_x - n)]
       [] cmd \in {"H", "f"} ->
            LET row == IF Len(params) > 0 /\ IsDigitStr(params[1]) THEN ToInt(params[1]) - 1 ELSE 0
                col == IF Len(params) > 1 /\ IsDigitStr(params[2]) THEN ToInt(params[2]) - 1 ELSE 0
            IN [t EXCEPT !.current_line = Max(0, Min(row, Len(t.lines) - 1)), !.cursor_x = Max(0, col)]
       [] cmd = "K" -> ClearToEol(t)
       [] cmd = "J" ->
            IF Len(params) > 0 /\ params[1] = << "2" >>
            THEN [t EXCEPT !.lines = << <<>> >>, !.current_line = 0, !.cursor_x = 0, !.scrollback = <<>>]
            ELSE LET c == ClearToEol(t) IN IF c.raised THEN c ELSE BlankBelow(c)
       [] OTHER -> t

\* The effect of one CSI sequence with final byte cmd.
ApplyCsi(t, cmd, params) ==
  LET n == MoveCount(params)
  IN CASE cmd = "A" -> [t EXCEPT !.current_line = Max(0, t.current_line - n)]
       [] cmd = "B" -> [t EXCEPT !.current_line = Min(Len(t.lines) - 1, t.current_line + n)]
       [] cmd = "C" -> [t EXCEPT !.cursor_x = t.cursor_x + n]
       [] cmd = "D" -> [t EXCEPT !.cursor_x = Max(0, t.cursor_x - n)]
       [] cmd \in {"H", "f"} ->
            LET row == IF Len(params) > 0 /\ IsDigitStr(params[1]) THEN ToInt(params[1]) - 1 ELSE 0
                col == IF Len(params) > 1 /\ IsDigitStr(params[2]) THEN ToInt(params[2]) - 1 ELSE 0
            IN [t EXCEPT !.current_line = Max(0, Min(row, Len(t.lines) - 1)), !.cursor_x = Max(0, col)]
       [] cmd = "K" -> ClearToEol(t)
       [] cmd = "J" ->
            IF Len(params) > 0 /\ params[1] = << "2" >>
            THEN [t EXCEPT !.lines = << <<>> >>, !.current_line = 0, !.cursor_x = 0]
            ELSE LET c == ClearToEol(t) IN IF c.raised THEN c ELSE BlankBelow(c)
       [] OTHER -> t

\* The index of the first BEL of text at or after i (Len(text) + 1 if none).
OscEnd(text, i) == FirstAt(text, i, {BEL}, TRUE)

\* One pass of the while loop of process_text at index i (1-based) of
\* text: the terminal after it and the index the loop goes on from
\* (Len(text) + 1 when the loop ends).
ProcessStep(t, text, i) ==
  LET char == text[i]
  IN IF char = ESC
     THEN IF i + 1 > Len(text) THEN <<t, Len(text) + 1>>
          ELSE IF text[i + 1] = "["
               THEN LET j == CsiEnd(text, i + 2)
                    IN IF j <= Len(text) THEN <<ApplyCsi(t, text[j], CsiParams(text, i + 2, j, <<>>)), j + 1>> ELSE <<t, Len(text) + 1>>
               ELSE IF text[i + 1] = "]"
                    THEN <<t, OscEnd(text, i + 2) + 1>>
                    ELSE <<t, i + 2>>
     ELSE IF char = CR THEN <<[t EXCEPT !.cursor_x = 0], i + 1>>
     ELSE IF char = LF THEN <<LineFeed(t), i + 1>>
     ELSE IF char = BS THEN <<IF t.cursor_x > 0 THEN [t EXCEPT !.cursor_x = t.cursor_x - 1] ELSE t, i + 1>>
     ELSE IF char = TAB THEN <<WriteChars(t, " ", 8 - (t.cursor_x % 8)), i + 1>>
     ELSE <<WriteChar(t, char), i + 1>>

RECURSIVE ProcessPasses(_, _)
\* The passes of the while loop from the pass that left at = <<terminal,
\* index>>.
ProcessPasses(at, text) == IF at[1].raised \/ at[2] > Len(text) THEN at[1] ELSE ProcessPasses(ProcessStep(at[1], text, at[2]), text)

\* The while loop of process_text, from index i (1-based) of text.
ProcessFrom(t, text, i) == ProcessPasses(<<t, i>>, text)

\* Terminal.process_text
process_text(t, text) == ProcessFrom(t, text, 1)

\* ------------------------------------------------------------------------
\* Strings (Python's str methods and the regular expressions of the code)
\* ------------------------------------------------------------------------
TRIDOWN == "TRIDOWN"

\* Printable ASCII, 0x20 to 0x7E (but for the backquote, which no text of the
\* model holds).
Punct == {" ", "!", "\"", "#", "$", "%", "&", "'", "(", ")", "*", "+", ",", "-", ".", "/", ":", ";", "<", "=", ">", "?", "@", "[", "\\", "]", "^", "_", "{", "|", "}", "~"}
Printable == Alpha \cup Digits \cup Punct

\* What str.strip() and the regex class \s take for white space.
Space == {" ", TAB, LF, CR}

\* The characters re.sub(r'[\x00-\x08\x0b\x0c\x0e-\x1f\x7f]', '', text) removes.
Control == {ESC, BEL, BS}

RECURSIVE LStrip(_)
LStrip(s) == IF Len(s) > 0 /\ s[1] \in Space THEN LStrip(Tail(s)) ELSE s

RECURSIVE RStrip(_)
RStrip(s) == IF Len(s) > 0 /\ s[Len(s)] \in Space THEN RStrip(SubSeq(s, 1, Len(s) - 1)) ELSE s

\* str.strip()
Strip(s) == RStrip(LStrip(s))

\* sub in s at (1-based) index i
HasAt(s, sub, i) == i >= 1 /\ i + Len(sub) - 1 <= Len(s) /\ SubSeq(s, i, i + Len(sub) - 1) = sub

\* sub in s
Contains(s, sub) == \E i \in 1..(Len(s) + 1) : HasAt(s, sub, i)

\* s.startswith(sub)
StartsWith(s, sub) == HasAt(s, sub, 1)

\* c in s, for a character c
HasChar(s, c) == \E i \in 1..Len(s) : s[i] = c

\* s.count(c), for a character c
Count(s, c) == Cardinality({i \in 1..Len(s) : s[i] = c})

\* s without the characters that are not in set
Keep(s, set) == SelectSeq(s, LAMBDA c : c \in set)

\* s without the characters of set
Drop(s, set) == SelectSeq(s, LAMBDA c : c \notin set)

LowerOf(c) == CASE c = "A" -> "a" [] c = "B" -> "b" [] c = "C" -> "c" [] c = "D" -> "d" [] c = "E" -> "e" [] c = "F" -> "f" [] c = "G" -> "g" [] c = "H" -> "h" [] c = "I" -> "i" [] c = "J" -> "j" [] c = "K" -> "k" [] c = "L" -> "l" [] c = "M" -> "m" [] c = "N" -> "n" [] c = "O" -> "o" [] c = "P" -> "p" [] c = "Q" -> "q" [] c = "R" -> "r" [] c = "S" -> "s" [] c = "T" -> "t" [] c = "U" -> "u" [] c = "V" -> "v" [] c = "W" -> "w" [] c = "X" -> "x" [] c = "Y" -> "y" [] c = "Z" -> "z" [] OTHER -> c

\* str.lower()
ToLower(s) == [k \in 1..Len(s) |-> LowerOf(s[k])]

RECURSIVE Join(_, _)
\* sep.join(parts)
Join(parts, sep) == IF Len(parts) = 0 THEN <<>> ELSE IF Len(parts) = 1 THEN parts[1] ELSE parts[1] \o sep \o Join(Tail(parts), sep)

\* text.split('\n'), cur being the line read so far
SplitLines(text, cur) ==
  LET cut(at) == [m \in 1..(Len(at) + 1) |->
                    (IF m = 1 THEN cur ELSE <<>>)
                      \o SubSeq(text, IF m = 1 THEN 1 ELSE at[m - 1] + 1, IF m = Len(at) + 1 THEN Len(text) ELSE at[m] - 1)]
  IN IF text = <<>> THEN <<cur>> ELSE cut(SelectSeq([k \in 1..Len(text) |-> k], LAMBDA k : text[k] = LF))

\* The index after the longest run of characters of set that starts at i.
SpanEnd(s, i, set) == FirstAt(s, i, set, FALSE)

\* The index of the first c of s at or after i (Len(s) + 1 if none).
FindChar(s, i, c) == FirstAt(s, i, {c}, TRUE)

\* The length of the match of the regular expression of strip_ansi,
\* \x1b\[[0-9;]*[a-zA-Z] | \x1b\][^\x07]*\x07 | \x1b[=<>], at index i (0: no match).
AnsiMatchLen(text, i) ==
  IF text[i] # ESC \/ i + 1 > Len(text) THEN 0
  ELSE IF text[i + 1] = "["
       THEN LET j == SpanEnd(text, i + 2, Digits \cup {";"})
            IN IF j <= Len(text) /\ text[j] \in Alpha THEN j - i + 1 ELSE 0
       ELSE IF text[i + 1] = "]"
            THEN LET j == FindChar(text, i + 2, BEL)
                 IN IF j <= Len(text) THEN j - i + 1 ELSE 0
            ELSE IF text[i + 1] \in {"=", "<", ">"} THEN 2 ELSE 0

RECURSIVE AnsiSub(_, _)
\* ansi_escape.sub('', text), from index i.
AnsiSub(text, i) ==
  LET n == [k \in i..Len(text) |-> AnsiMatchLen(text, k)]
      cut(k) == IF k > Len(text) THEN SubSeq(text, i, Len(text))
                ELSE SubSeq(text, i, k - 1) \o AnsiSub(text, k + n[k])
  IN IF i > Len(text) THEN <<>> ELSE cut(Least({k \in i..Len(text) : n[k] > 0}, Len(text) + 1))

\* ansi.strip_ansi
strip_ansi(text) == Drop(AnsiSub(text, 1), Control)

\* The prompt pattern, BOXTL BOXH BOXH \( [^)]+ \) - \[ [^\]]+ \] \r? \n BOXBL BOXH [#$] \s*,
\* matches at index i.
PromptAt(text, i) ==
  /\ HasAt(text, <<BOXTL, BOXH, BOXH, "(">>, i)
  /\ LET a == FindChar(text, i + 4, ")")
     IN /\ a > i + 4
        /\ HasAt(text, <<")", "-", "[">>, a)
        /\ LET b == FindChar(text, a + 3, "]")
               c == IF b + 1 <= Len(text) /\ text[b + 1] = CR THEN b + 2 ELSE b + 1
           IN /\ b > a + 3
              /\ b <= Len(text)
              /\ HasAt(text, <<LF, BOXBL, BOXH>>, c)
              /\ c + 3 <= Len(text)
              /\ text[c + 3] \in {"#", "$"}

\* prompt_pattern.search(text)
PromptSearch(text) == \E i \in 1..Len(text) : PromptAt(text, i)

\* The regular expression ^\d+,\d+.*<word> matches line (re.match).
DigitsCommaDigitsThen(line, word) ==
  LET a == SpanEnd(line, 1, Digits)
      b == SpanEnd(line, a + 1, Digits)
  IN /\ a > 1 /\ a <= Len(line) /\ line[a] = ","
     /\ b > a + 1
     /\ \E k \in (a + 2)..Len(line) : HasAt(line, word, k)

\* The regular expression ^".*"\s+\d+L,\s+\d+B matches line (re.match).
VimWrittenLine(line) ==
  /\ Len(line) > 0 /\ line[1] = "\""
  /\ \E q \in 2..Len(line) :
       /\ line[q] = "\""
       /\ LET s1 == SpanEnd(line, q + 1, Space)
              d1 == SpanEnd(line, s1, Digits)
              s2 == SpanEnd(line, d1 + 2, Space)
              d2 == SpanEnd(line, s2, Digits)
          IN /\ s1 > q + 1 /\ d1 > s1
             /\ HasAt(line, <<"L", ",">>, d1)
             /\ s2 > d1 + 2 /\ d2 > s2
             /\ d2 <= Len(line) /\ line[d2] = "B"

InsertBanner == <<"-", "-", " ", "I", "N", "S", "E", "R", "T", " ", "-", "-">>
ReplaceBanner == <<"-", "-", " ", "R", "E", "P", "L", "A", "C", "E", " ", "-", "-">>

RECURSIVE DropLeadingBlank(_)
\* while cleaned and not cleaned[0].strip(): cleaned.pop(0)
DropLeadingBlank(ls) == IF Len(ls) > 0 /\ Strip(ls[1]) = <<>> THEN DropLeadingBlank(Tail(ls)) ELSE ls

RECURSIVE DropTrailingBlank(_)
\* while cleaned and not cleaned[-1].strip(): cleaned.pop()
DropTrailingBlank(ls) == IF Len(ls) > 0 /\ Strip(ls[Len(ls)]) = <<>> THEN DropTrailingBlank(SubSeq(ls, 1, Len(ls) - 1)) ELSE ls

\* ------------------------------------------------------------------------
\* detector.py
\* ------------------------------------------------------------------------
\* Python's None where a text is expected: a value that is no text (no
\* text holds the token "None").
None == <<"None">>

\* The first index of s at or after i that holds a character of set
\* (Len(s) + 1 if none).
FirstIn(s, i, set) ==
  LET c == {j \in i..Len(s) : s[j] \in set}
  IN IF c = {} THEN Len(s) + 1 ELSE CHOOSE j \in c : \A m \in c : j <= m

\* The length of the match of PROMPT_PATTERNS[n - 1] that starts at index
\* i of text (0: no match there), as the backtracking matcher finds it.
PromptMatchLen(n, text, i) ==
  LET \* [^\$#\n]+ from a, then '$ ' or '# ': the index after the match, 0 if none
      PathThen(a, mark) == LET e == FirstIn(text, a, {"$", "#", LF})
                           IN IF e > a /\ HasAt(text, <<mark, " ">>, e) THEN e + 2 ELSE 0
      \* [^\s]+\@[^\s]+\: from i, greedy: the last '@' of the run of
      \* non-blanks, then the last ':' after it, for which the rest matches
      HostThen(mark) ==
        LET e1 == FirstIn(text, i, Space)
            ats == {p \in (i + 1)..(e1 - 1) : text[p] = "@"}
            colons(p) == {q \in (p + 2)..(e1 - 1) : text[q] = ":" /\ PathThen(q + 1, mark) > 0}
            good == {p \in ats : colons(p) # {}}
        IN IF good = {} THEN 0
           ELSE LET p == CHOOSE x \in good : \A y \in good : y <= x
                    q == CHOOSE x \in colons(p) : \A y \in colons(p) : y <= x
                IN PathThen(q + 1, mark)
      end == CASE n = 1 -> IF HasAt(text, <<BOXTL, BOXH, BOXH, "(">>, i)
                           THEN LET a == FirstIn(text, i + 4, {")"})
                                    b == FirstIn(text, a + 3, {"]"})
                                    c == IF b + 1 <= Len(text) /\ text[b + 1] = CR THEN b + 2 ELSE b + 1
                                IN IF /\ a > i + 4 /\ HasAt(text, <<")", "-", "[">>, a)
                                      /\ b > a + 3 /\ b <= Len(text)
                                      /\ HasAt(text, <<LF, BOXBL, BOXH>>, c)
                                      /\ c + 4 <= Len(text) /\ text[c + 3] \in {"#", "$"} /\ text[c + 4] = " "
                                   THEN c + 5 ELSE 0
                           ELSE 0
                [] n = 2 -> HostThen("$")
                [] n = 3 -> HostThen("#")
                [] n = 4 -> PathThen(i, "$")
                [] n = 5 -> PathThen(i, "#")
                [] n = 6 -> IF HasAt(text, <<"$", " ">>, i) THEN i + 2 ELSE 0
                [] n = 7 -> IF HasAt(text, <<"#", " ">>, i) THEN i + 2 ELSE 0
                [] n = 8 -> IF HasAt(text, <<">", " ">>, i) THEN i + 2 ELSE 0
                [] n = 9 -> IF HasAt(text, <<"P", "S", " ">>, i)
                            THEN LET e == FirstIn(text, i + 3, {">"})
                                 IN IF e > i + 3 /\ HasAt(text, <<">", " ">>, e) THEN e + 2 ELSE 0
                            ELSE 0
  IN IF end = 0 THEN 0 ELSE end - i

\* detector.detect_prompt: <<prompt_string, position>> of the leftmost
\* match of the first pattern that matches, <<>> for None.
detect_prompt(text) ==
  LET found(len) ==
        LET at(n) == LET cut(i) == <<SubSeq(text, i, i + len[n][i] - 1), i - 1>>
                     IN IF n = 0 THEN <<>> ELSE cut(Least({i \in 1..Len(text) : len[n][i] > 0}, 0))
        IN at(Least({n \in 1..9 : \E i \in 1..Len(text) : len[n][i] > 0}, 0))
  IN found([n \in 1..9 |-> [i \in 1..Len(text) |-> PromptMatchLen(n, text, i)]])

\* extract_command without the test that the line starts with the prompt.
extract_command_unchecked(line, prompt) ==
  LET command == Strip(SubSeq(line, Len(prompt) + 1, Len(line)))
  IN IF command # <<>> THEN command ELSE None

\* detector.extract_command
extract_command(line, prompt) ==
  IF StartsWith(line, prompt)
  THEN LET command == Strip(SubSeq(line, Len(prompt) + 1, Len(line)))
       IN IF command # <<>> THEN command ELSE None
  ELSE None


\* ------------------------------------------------------------------------
\* CommandExtractor (command_extractor.py)
\* ------------------------------------------------------------------------
\* An event is <<timestamp, event_type, text>>; a command of the extractor
\* is <<command, output, timestamp>>.
CE__init__ == [commands |-> <<>>, current_command_chars |-> <<>>, current_output_lines |-> <<>>, in_prompt |-> FALSE, command_entered |-> FALSE, last_prompt_time |-> 0, last_event_was_typing |-> FALSE]

\* The lines CommandExtractor._clean_output removes.
CE_artifact(line) ==
  \/ Strip(line) = <<"~">>
  \/ Contains(line, InsertBanner) \/ Contains(line, ReplaceBanner)
  \/ DigitsCommaDigitsThen(line, <<"A", "l", "l">>)
  \/ Strip(line) \in {<<TRIDOWN>>, <<"z", "z">>}
  \/ VimWrittenLine(line)
  \/ DigitsCommaDigitsThen(line, <<"w", "r", "i", "t", "t", "e", "n">>)
  \/ (StartsWith(Strip(line), <<BOXTL, BOXH, BOXH>>) /\ ~Contains(line, <<BOXBL, BOXH>>))

RECURSIVE CE_kept_lines(_)
\* The loop of _clean_output: the lines that are not artifacts, in order.
CE_kept_lines(ls) == IF Len(ls) = 0 THEN <<>> ELSE (IF CE_artifact(ls[1]) THEN <<>> ELSE <<ls[1]>>) \o CE_kept_lines(Tail(ls))

\* CommandExtractor._clean_output
CE_clean_output(text) == Join(DropTrailingBlank(DropLeadingBlank(CE_kept_lines(SplitLines(text, <<>>)))), <<LF>>)

\* The command _finalize_current_command reads from the typed characters.
CE_command(chars) == Strip(Keep(Strip(chars), Printable))

\* The refusals of _finalize_current_command without the test of the empty command.
CE_refusedUnlessEmpty(command) ==
  \/ Len(command) > MaxCommandLen
  \/ Count(command, " ") > MaxCommandSpaces
  \/ (StartsWith(command, <<"#">>) /\ Contains(ToLower(command), <<"f", "o", "l", "l", "o", "w", "i", "n", "g">>))

\* The commands _finalize_current_command refuses.
CE_refused(command) ==
  \/ command = <<>>
  \/ Len(command) > MaxCommandLen
  \/ Count(command, " ") > MaxCommandSpaces
  \/ (StartsWith(command, <<"#">>) /\ Contains(ToLower(command), <<"f", "o", "l", "l", "o", "w", "i", "n", "g">>))

\* CommandExtractor._finalize_current_command
CE_finalize_current_command(x) ==
  IF x.current_command_chars = <<>> /\ ~x.command_entered THEN x
  ELSE LET command == CE_command(x.current_command_chars)
       IN IF CE_refused(command) THEN x
          ELSE [x EXCEPT !.commands = Append(x.commands, <<command, CE_clean_output(Join(x.current_output_lines, <<LF>>)), x.last_prompt_time>>)]

\* CommandExtractor._handle_new_prompt
CE_handle_new_prompt(x, timestamp) ==
  LET y == IF x.command_entered \/ x.current_command_chars # <<>> THEN CE_finalize_current_command(x) ELSE x
  IN [y EXCEPT !.current_command_chars = <<>>, !.current_output_lines = <<>>, !.in_prompt = TRUE, !.command_entered = FALSE, !.last_prompt_time = timestamp, !.last_event_was_typing = FALSE]

\* The character class of the complete-command test of _process_command_input.
CommandChars == Alpha \cup Digits \cup Space \cup {"_", "/", "-", ".", "$", "\"", "'", "=", ":", ";", "[", "]", "{", "}", "(", ")"}

\* re.match(r'^[...]+$', s)
AllCommandChars(s) == Len(s) > 0 /\ \A k \in 1..Len(s) : s[k] \in CommandChars

\* The complete-command test of _process_command_input (lines 69-78).
CE_complete_command(clean_text) ==
  /\ Len(clean_text) > 5 /\ Len(clean_text) < MaxCommandLen
  /\ ~HasChar(clean_text, ESC)
  /\ ~HasChar(clean_text, CR) /\ ~HasChar(clean_text, LF)
  /\ AllCommandChars(Strip(clean_text))
  /\ LET cmd == Strip(clean_text)
     IN (~StartsWith(cmd, <<"#">>) /\ HasChar(cmd, " ")) \/ Len(cmd) > 3

\* The result of entering the command.
CE_entered(x) == [x EXCEPT !.command_entered = TRUE, !.in_prompt = FALSE, !.last_event_was_typing = FALSE]

RECURSIVE CE_typed(_, _, _)
\* The character loop of _process_command_input (lines 112-155), from index i.
CE_typed(x, text, i) ==
  IF i > Len(text) THEN x
  ELSE LET char == text[i]
       IN IF char = ESC
          THEN IF i + 1 <= Len(text) /\ text[i + 1] = "["
               THEN CE_typed(x, text, Min(CsiEnd(text, i + 2), Len(text)) + 1)
               ELSE IF i + 1 <= Len(text) /\ text[i + 1] = "]"
                    THEN CE_typed(x, text, Min(OscEnd(text, i + 2), Len(text)) + 1)
                    ELSE CE_typed(x, text, i + 1)
          ELSE IF char = BS
               THEN CE_typed(IF x.current_command_chars # <<>> THEN [x EXCEPT !.current_command_chars = SubSeq(@, 1, Len(@) - 1)] ELSE x, text, i + 1)
          ELSE IF char \in Printable
               THEN CE_typed([x EXCEPT !.current_command_chars = Append(@, char)], text, i + 1)
          ELSE IF char = LF /\ x.current_command_chars # <<>>
               THEN [x EXCEPT !.command_entered = TRUE, !.in_prompt = FALSE]
          ELSE CE_typed(x, text, i + 1)

\* CommandExtractor._process_command_input
CE_process_command_input(x, text) ==
  LET clean_text == strip_ansi(text)
  IN IF CE_complete_command(clean_text)
     THEN CE_entered([x EXCEPT !.current_command_chars = Strip(clean_text)])
     ELSE IF Contains(text, <<CR, CR, LF>>) THEN CE_entered(x)
     ELSE IF Contains(text, <<CR, CR>>) /\ x.current_command_chars # <<>> THEN CE_entered(x)
     ELSE IF Contains(text, <<ESC, "[", "1", "B", CR>>) /\ x.current_command_chars # <<>> THEN CE_entered(x)
     ELSE LET y == CE_typed(x, text, 1)
          IN IF y.current_command_chars # <<>> THEN [y EXCEPT !.last_event_was_typing = TRUE] ELSE y

\* _process_output collecting the text as received, escape sequences included.
CE_process_output_raw(x, text) ==
  IF PromptSearch(strip_ansi(text)) THEN x
  ELSE IF Strip(strip_ansi(text)) # <<>> THEN [x EXCEPT !.current_output_lines = Append(@, text)] ELSE x

\* CommandExtractor._process_output
CE_process_output(x, text) ==
  LET clean_text == strip_ansi(text)
  IN IF PromptSearch(clean_text) THEN x
     ELSE IF Strip(clean_text) # <<>> THEN [x EXCEPT !.current_output_lines = Append(@, clean_text)] ELSE x

\* The body of the loop of process_events, for one event.
CE_event(x, ev) ==
  IF ev[2] # "o" THEN x
  ELSE IF PromptSearch(ev[3]) THEN CE_handle_new_prompt(x, ev[1])
  ELSE IF x.in_prompt /\ ~x.command_entered THEN CE_process_command_input(x, ev[3])
  ELSE CE_process_output(x, ev[3])

RECURSIVE CE_events(_, _, _)
\* The loop of process_events, from event i.
CE_events(x, events, i) == IF i > Len(events) THEN x ELSE CE_events(CE_event(x, events[i]), events, i + 1)

\* process_events without the call of _finalize_current_command after the loop.
CE_process_events_no_flush(x, events) == CE_events(x, events, 1)

\* CommandExtractor.process_events: the object after the call.
CE_process_events(x, events) == CE_finalize_current_command(CE_events(x, events, 1))

\* What process_events returns: the commands without their timestamps.
CE_returned(x) == [k \in 1..Len(x.commands) |-> <<x.commands[k][1], x.commands[k][2]>>]

\* ------------------------------------------------------------------------
\* EventProcessor (event_processor.py)
\* ------------------------------------------------------------------------
\* current_command_buffer is a list of strings: one per typed character, or
\* the whole command; a command is <<command, output>>.
EP__init__ == [commands |-> <<>>, current_command_buffer |-> <<>>, current_output |-> <<>>, in_prompt |-> FALSE, command_entered |-> FALSE]

\* The lines EventProcessor._clean_output removes.
EP_artifact(line) ==
  \/ Strip(line) = <<"~">>
  \/ Contains(line, InsertBanner) \/ Contains(line, ReplaceBanner)
  \/ DigitsCommaDigitsThen(line, <<"A", "l", "l">>)
  \/ Strip(line) \in {<<TRIDOWN>>, <<"z", "z">>}

RECURSIVE EP_kept_lines(_)
\* The loop of _clean_output: the lines that are not artifacts, in order.
EP_kept_lines(ls) == IF Len(ls) = 0 THEN <<>> ELSE (IF EP_artifact(ls[1]) THEN <<>> ELSE <<ls[1]>>) \o EP_kept_lines(Tail(ls))

\* EventProcessor._clean_output
EP_clean_output(text) == Join(DropTrailingBlank(DropLeadingBlank(EP_kept_lines(SplitLines(text, <<>>)))), <<LF>>)

\* EventProcessor._extract_command
EP_extract_command(x) == Strip(Keep(Strip(Join(x.current_command_buffer, <<>>)), Printable))

\* The flush of process_events (lines 29-35 and 85-90).
EP_flush(x) ==
  IF x.command_entered /\ EP_extract_command(x) # <<>>
  THEN [x EXCEPT !.commands = Append(@, <<EP_extract_command(x), EP_clean_output(Strip(Join(x.current_output, <<LF>>)))>>)]
  ELSE x

\* The character class that follows the first letter in the complete-command test.
EP_CommandChars == Alpha \cup Digits \cup Space \cup {"_", "/", "-", ".", "$", "\"", "'", "=", ":", ";"}

\* The complete-command test of process_events (lines 59-61).
EP_complete_command(clean_text) ==
  /\ Len(clean_text) > 5
  /\ ~HasChar(clean_text, ESC) /\ ~HasChar(clean_text, CR) /\ ~HasChar(clean_text, LF) /\ ~HasChar(clean_text, BS)
  /\ LET cmd == Strip(clean_text)
     IN /\ Len(cmd) >= 2 /\ cmd[1] \in Alpha
        /\ \A k \in 2..Len(cmd) : cmd[k] \in EP_CommandChars

RECURSIVE EP_typed(_, _, _)
\* The character loop of process_events (lines 69-78), from index i.
EP_typed(buffer, text, i) ==
  IF i > Len(text) THEN buffer
  ELSE IF text[i] = BS THEN EP_typed(IF buffer # <<>> THEN SubSeq(buffer, 1, Len(buffer) - 1) ELSE buffer, text, i + 1)
  ELSE IF text[i] \notin {ESC, CR, LF} /\ text[i] \in Printable THEN EP_typed(Append(buffer, <<text[i]>>), text, i + 1)
  ELSE EP_typed(buffer, text, i + 1)

\* The body of the loop of process_events, for one event.
EP_event(x, ev) ==
  IF ev[2] # "o" THEN x
  ELSE IF PromptSearch(ev[3])
       THEN [EP_flush(x) EXCEPT !.current_command_buffer = <<>>, !.current_output = <<>>, !.in_prompt = TRUE, !.command_entered = FALSE]
       ELSE LET text == ev[3]
                clean_text == strip_ansi(text)
            IN IF x.in_prompt /\ ~x.command_entered
               THEN IF Contains(text, <<CR, CR, LF>>) \/ (x.current_command_buffer # <<>> /\ Contains(text, <<CR, LF>>) /\ ~StartsWith(clean_text, <<BOXTL, BOXH, BOXH>>))
                    THEN [x EXCEPT !.command_entered = TRUE, !.in_prompt = FALSE]
                    ELSE IF EP_complete_command(clean_text)
                         THEN [x EXCEPT !.current_command_buffer = <<Strip(clean_text)>>, !.command_entered = TRUE, !.in_prompt = FALSE]
                         ELSE [x EXCEPT !.current_command_buffer = EP_typed(x.current_command_buffer, text, 1)]
               ELSE IF Strip(clean_text) # <<>> /\ ~StartsWith(clean_text, <<BOXTL, BOXH, BOXH>>)
                    THEN [x EXCEPT !.current_output = Append(@, clean_text)]
                    ELSE x

RECURSIVE EP_events(_, _, _)
\* The loop of process_events, from event i.
EP_events(x, events, i) == IF i > Len(events) THEN x ELSE EP_events(EP_event(x, events[i]), events, i + 1)

\* EventProcessor.process_events: the object after the call (it returns
\* its commands).
EP_process_events(x, events) == EP_flush(EP_events(x, events, 1))

\* ------------------------------------------------------------------------
\* DirectExtractor (direct_extractor.py)
\* ------------------------------------------------------------------------
\* str.isalpha() and str.isalnum() of a text.
IsAlpha(s) == Len(s) > 0 /\ \A k \in 1..Len(s) : s[k] \in Alpha
EndsWith(s, sub) == HasAt(s, sub, Len(s) - Len(sub) + 1)

\* The regular expression ^\s*\d+L,\s+\d+B followed by \s+written (tail =
\* "written") or by \s*$ (tail = "end") matches s (re.match).
VimSizeLine(s, tail) ==
  LET s0 == SpanEnd(s, 1, Space)
      d1 == SpanEnd(s, s0, Digits)
      s2 == SpanEnd(s, d1 + 2, Space)
      d2 == SpanEnd(s, s2, Digits)
      s3 == SpanEnd(s, d2 + 1, Space)
  IN /\ d1 > s0 /\ HasAt(s, <<"L", ",">>, d1)
     /\ s2 > d1 + 2 /\ d2 > s2
     /\ d2 <= Len(s) /\ s[d2] = "B"
     /\ IF tail = "written" THEN s3 > d2 + 1 /\ HasAt(s, <<"w", "r", "i", "t", "t", "e", "n">>, s3) ELSE s3 = Len(s) + 1

\* The tests of the first loop of _clean_output that come before the
\* progressive-sequence test (lines 226-247): the line is dropped.
DE_vim_or_short(line) ==
  LET s == Strip(line)
  IN \/ s = <<"~">>
     \/ Contains(line, InsertBanner) \/ Contains(line, ReplaceBanner)
     \/ DigitsCommaDigitsThen(line, <<"A", "l", "l">>)
     \/ s \in {<<TRIDOWN>>, <<"z", "z">>}
     \/ VimWrittenLine(line)
     \/ DigitsCommaDigitsThen(line, <<"w", "r", "i", "t", "t", "e", "n">>)
     \/ (Len(s) <= 2 /\ ToLower(s) \notin {<<"o", "k">>, <<"n", "o">>, <<"y", "e", "s">>, <<"i", "d">>, <<"i", "p">>})
     \/ (Len(s) = 1 /\ IsAlpha(s))

\* The tests of the first loop between the two progressive-sequence tests
\* (lines 257-275): the line is dropped.
DE_message_or_residue(line) ==
  LET s == Strip(line)
  IN \/ (Contains(line, <<"C", "o", "m", "p", "l", "e", "t", "i", "n", "g">>) /\ Contains(line, <<"e", "x", "e", "c", "u", "t", "a", "b", "l", "e", " ", "f", "i", "l", "e">>))
     \/ (StartsWith(s, <<"[">>) /\ (Contains(line, <<"?", "2", "5">>) \/ Contains(line, <<"?", "1">>) \/ Contains(line, <<"?", "2", "0", "0", "4">>)))
     \/ (Len(s) >= 2 /\ s[1] = "[" /\ s[Len(s)] = "]")
     \/ StartsWith(s, <<"E", "4", "8", "6">>) \/ StartsWith(s, <<"E", "3", "8", "7">>)
     \/ IsDigitStr(s)
     \/ (Len(s) > 0 /\ \A k \in 1..Len(s) : s[k] \notin Alpha \cup Digits)

RECURSIVE DE_first_loop(_, _)
\* The first loop of _clean_output (lines 222-286) over the lines ls, with
\* prev_line as it stands (<<>> for None): the list cleaned.
DE_first_loop(ls, prev_line) ==
  IF Len(ls) = 0 THEN <<>>
  ELSE LET line == ls[1]
           s == Strip(line)
       IN IF DE_vim_or_short(line) THEN DE_first_loop(Tail(ls), prev_line)
          ELSE IF prev_line # <<>> /\ Len(s) > Len(prev_line) /\ Contains(s, prev_line) THEN DE_first_loop(Tail(ls), s)
          ELSE IF DE_message_or_residue(line) THEN DE_first_loop(Tail(ls), prev_line)
          ELSE IF Len(s) < 4 /\ IsAlpha(s) /\ prev_line # <<>> /\ Contains(prev_line, s) THEN DE_first_loop(Tail(ls), s)
          ELSE <<line>> \o DE_first_loop(Tail(ls), s)

\* is_progressive of the line cleaned[i] (lines 303-321; i counts from 1).
DE_is_progressive(cleaned, i) ==
  LET s == Strip(cleaned[i])
      n == Len(cleaned)
      near == \/ (i > 1 /\ LET p == Strip(cleaned[i - 1]) IN p # <<>> /\ StartsWith(s, p) /\ Len(s) > Len(p))
              \/ (i < n /\ LET x == Strip(cleaned[i + 1]) IN x # <<>> /\ StartsWith(x, s) /\ Len(x) > Len(s))
  IN \/ near
     \/ (Len(s) < 15 /\ \E j \in (i + 1)..Min(i + 9, n) :
           LET later == Strip(cleaned[j]) IN StartsWith(later, s) /\ Len(later) > Len(s) + 2)

\* The tests of the second loop that read the stripped line alone (lines
\* 337-400): the line is skipped.
DE_noise(s) ==
  \/ (StartsWith(s, <<"[">>) /\ (Contains(s, <<"?", "2", "5">>) \/ Contains(s, <<"?", "1">>) \/ Contains(s, <<"?", "2", "0", "0", "4">>)))
  \/ (SpanEnd(s, SpanEnd(s, 1, Space), Digits) > SpanEnd(s, 1, Space)
        /\ \E k \in 2..Len(s) : s[k] = "[" /\ \E m \in (k + 1)..Len(s) : HasAt(s, <<"?", "2", "5">>, m))
  \/ VimWrittenLine(s)
  \/ VimSizeLine(s, "written")
  \/ VimSizeLine(s, "end")
  \/ StartsWith(s, <<"C", "o", "m", "p", "l", "e", "t", "i", "n", "g">>)
  \/ HasChar(s, TRIDOWN) \/ Contains(s, <<"P", "z", "z">>) \/ Contains(s, <<"[", ">", "c">>)
  \/ (Len(s) < 8 /\ (HasChar(s, "/") \/ EndsWith(s, <<"o", "s", "t", "s">>) \/ EndsWith(s, <<"o", "s", "t">>)) /\ (HasChar(s, "/") \/ s \in {<<"o", "s", "t", "s">>, <<"o", "s", "t">>, <<"h", "o", "s", "t">>, <<"h", "o", "s", "t", "s">>}))
  \/ s = <<"/", "e", "t", "c", "/", "h", "o", "s", "t">>
  \/ (Len(s) <= 4 /\ s \in {<<"v", "i", "m">>, <<"e", "n", "v">>, <<"m", "k", "d">>, <<"c", "p">>, <<"c", "d">>, <<"l", "s">>})
  \/ (Len(s) <= 5 /\ \E p \in {<<"c", "p", " ">>, <<"m", "v", " ">>, <<"r", "m", " ">>, <<"c", "d", " ">>, <<"l", "s", " ">>} : StartsWith(s, p))
  \/ s \in {<<"v", "i", "m", " ", "/", "e", "t", "c", "/", "h", "o", "s", "t", "s">>, <<"v", "i", "m", " ", "/", "e", "t", "c", "/", "r", "e", "s", "o", "l", "v", ".", "c", "o", "n", "f">>, <<"v", "i", "m", " ", ".", "e", "n", "v">>, <<"v", "i", "m", " ", "u", "s", "e", "r", "s", ".", "t", "x", "t">>}
  \/ ((StartsWith(s, <<"v", "i", "m", " ", "/">>) \/ StartsWith(s, <<"n", "m", "a", "p", " ">>) \/ StartsWith(s, <<"a", "p", "t", " ">>)) /\ Len(s) < 50
        /\ \E w \in {<<"v", "i", "m">>, <<"n", "m", "a", "p">>, <<"a", "p", "t">>} : StartsWith(s, w) /\ LET e == SpanEnd(s, Len(w) + 1, Space) IN e > Len(w) + 1 /\ e <= Len(s))
  \/ (Len(s) >= 3 /\ StartsWith(s, <<"\"", "/">>) /\ s[Len(s)] = "\"")
  \/ (Len(s) <= 3 /\ StartsWith(s, <<"#">>))

RECURSIVE DE_second_loop(_, _, _)
\* The second loop of _clean_output (lines 298-420) from index i (counted
\* from 1), with final_cleaned as it stands: the list final_cleaned.
DE_second_loop(cleaned, i, final_cleaned) ==
  IF i > Len(cleaned) THEN final_cleaned
  ELSE LET line == cleaned[i]
           s == Strip(line)
           long == {k \in i..Len(cleaned) : ~(Len(Strip(cleaned[k])) <= 2 /\ IsAlpha(Strip(cleaned[k])))}
           j == IF long = {} THEN Len(cleaned) + 1 ELSE CHOOSE k \in long : \A m \in long : k <= m
           p == Strip(cleaned[i - 1])
       IN IF Len(s) <= 2 /\ IsAlpha(s) /\ j - i > 2 THEN DE_second_loop(cleaned, j, final_cleaned)
          ELSE IF DE_noise(s) \/ DE_is_progressive(cleaned, i) THEN DE_second_loop(cleaned, i + 1, final_cleaned)
          ELSE IF /\ i > 1 /\ p # <<>> /\ s # <<>>
                  /\ (StartsWith(p, s) \/ StartsWith(s, p))
                  /\ Len(p) - Len(s) <= 2 /\ Len(s) - Len(p) <= 2
                  /\ Len(s) < Len(p)
               THEN DE_second_loop(cleaned, i + 1, IF final_cleaned # <<>> /\ final_cleaned[Len(final_cleaned)] = cleaned[i - 1] THEN SubSeq(final_cleaned, 1, Len(final_cleaned) - 1) ELSE final_cleaned)
               ELSE DE_second_loop(cleaned, i + 1, Append(final_cleaned, line))

RECURSIVE DE_sub_residue(_, _, _)
\* re.sub(head + r'\s*', '', text) from index i, for the heads given: each
\* match and the whitespace after it is removed (lines 425-426).
DE_sub_residue(text, i, heads) ==
  LET cut(k) == IF k > Len(text) THEN SubSeq(text, i, Len(text))
                ELSE SubSeq(text, i, k - 1)
                       \o DE_sub_residue(text, SpanEnd(text, k + Len(CHOOSE h \in heads : HasAt(text, h, k)), Space), heads)
  IN IF i > Len(text) THEN <<>> ELSE cut(Least({k \in i..Len(text) : \E h \in heads : HasAt(text, h, k)}, Len(text) + 1))

\* [seq[k] for k in keep], in the order of seq.
KeepAt(seq, keep) ==
  LET at == SelectSeq([k \in 1..Len(seq) |-> k], LAMBDA k : k \in keep)
  IN IF seq = <<>> THEN <<>> ELSE [m \in 1..Len(at) |-> seq[at[m]]]

\* The loop of lines 428-439 of _clean_output: a prompt line that follows
\* a prompt line is dropped, and so are two vim command lines.
DE_prompts_and_vim(ls) ==
  KeepAt(ls, {k \in 1..Len(ls) :
                /\ ~(Contains(ls[k], <<BOXTL, BOXH, BOXH, "(">>) /\ k > 1 /\ Contains(ls[k - 1], <<BOXTL, BOXH, BOXH, "(">>))
                /\ Strip(ls[k]) \notin {<<"v", "i", "m", " ", "/", "e", "t", "c", "/", "h", "o", "s", "t", "s">>, <<"v", "i", "m", " ", "/", "e", "t", "c", "/", "r", "e", "s", "o", "l", "v", ".", "c", "o", "n", "f">>}})

\* Line 442: the lines that are a tilde, or start with a tilde and a space, are dropped.
DE_tildes(split) == KeepAt(split, {k \in 1..Len(split) : ~(Strip(split[k]) = <<"~">> \/ StartsWith(Strip(split[k]), <<"~", " ">>))})

\* Lines 444-455: a blank line that follows a blank line is dropped.
DE_blank_runs(result_lines) == KeepAt(result_lines, {k \in 1..Len(result_lines) : Strip(result_lines[k]) # <<>> \/ k = 1 \/ Strip(result_lines[k - 1]) # <<>>})

\* DirectExtractor._clean_output: the two loops, the residue of the escape
\* sequences (lines 425-426), then the three passes over the lines.  The
\* first loop drops the one line of the empty text, and an empty list of
\* lines goes through the passes as one empty line.
DE_clean_output(text) ==
  IF text = <<>> THEN <<>> ELSE
  Join(DE_blank_runs(DE_tildes(SplitLines(
    Join(DE_prompts_and_vim(SplitLines(
      DE_sub_residue(DE_sub_residue(
        Join(DE_second_loop(DropTrailingBlank(DropLeadingBlank(DE_first_loop(SplitLines(text, <<>>), <<>>))), 1, <<>>), <<LF>>),
        1, {<<"[", "?", "1", "h">>}), 1, {<<"[", "?", "2", "0", "0", "4", "h">>, <<"[", "?", "2", "0", "0", "4", "l">>}),
      <<>>)), <<LF>>),
    <<>>))), <<LF>>)

\* The colour code that introduces an autocomplete suggestion.
Gray == <<ESC, "[">> \o <<"3", "8", ";", "2", ";", "1", "5", "3", ";", "1", "5", "3", ";", "1", "5", "3", "m">>

\* The test for a complete command string in _find_output_for_command and
\* _extract_from_prompts (lines 132-138, 166-172), on the text stripped of
\* its escape sequences.
DE_complete_clean(clean_text) ==
  LET clean_stripped == Strip(clean_text)
  IN /\ Len(clean_stripped) > 5 /\ Len(clean_stripped) < 500
     /\ \A k \in 1..Len(clean_text) : clean_text[k] \notin {ESC, CR, LF}
     /\ HasChar(clean_stripped, " ")
     /\ clean_stripped[1] \in Alpha

DE_complete_command(text) == DE_complete_clean(strip_ansi(text))

\* The event is an output event that shows a prompt.
DE_is_prompt(ev) == ev[2] = "o" /\ PromptSearch(ev[3])

\* The texts that _find_output_for_command collects from the events
\* first..last (lines 125-146): those of the output events, stripped of
\* escape sequences, that are not blank and do not start a prompt.
DE_output_texts(events, first, last) ==
  LET clean == [i \in first..last |-> IF events[i][2] = "o" THEN strip_ansi(events[i][3]) ELSE <<>>]
      kept == SelectSeq([k \in 1..(last - first + 1) |-> first + k - 1],
                        LAMBDA i : events[i][2] = "o" /\ Strip(clean[i]) # <<>> /\ ~StartsWith(clean[i], <<BOXTL, BOXH, BOXH>>))
  IN [k \in 1..Len(kept) |-> clean[kept[k]]]

\* DirectExtractor._find_output_for_command; events are counted from 1, so
\* range(cmd_idx + 1, min(cmd_idx + 100, len)) is cmd_idx + 1 .. min(cmd_idx + 99, len).
\* The loop stops at the first event that shows a prompt or a complete command.
DE_find_output_for_command(events, cmd_idx) ==
  DE_clean_output(Join(DE_output_texts(events, cmd_idx + 1,
    Least({i \in (cmd_idx + 1)..Min(cmd_idx + LookAhead - 1, Len(events)) :
             DE_is_prompt(events[i]) \/ (events[i][2] = "o" /\ DE_complete_command(events[i][3]))},
          Min(cmd_idx + LookAhead - 1, Len(events)) + 1) - 1), <<LF>>))

\* The printable characters and line ends of an event that
\* _find_command_prefix reads (lines 188-195): '' for an event that is no
\* output or carries the gray colour code.
DE_prefix_text(ev) == IF ev[2] = "o" /\ ~Contains(ev[3], Gray) THEN Keep(strip_ansi(ev[3]), Printable \cup {CR, LF}) ELSE <<>>

\* The line that _find_command_prefix takes from the texts read (lines
\* 197-210), trimmed.
DE_prefix_line(stream) ==
  LET start == SpanEnd(stream, 1, {CR, LF})
  IN Strip(SubSeq(stream, start, SpanEnd(stream, start, Printable) - 1))

\* DirectExtractor._find_command_prefix (<<>> for None and for ''): the
\* printable characters of the events before event_idx that are not gray,
\* up to the first line end that follows one of them.
DE_find_command_prefix(events, event_idx) ==
  DE_prefix_line(Join([k \in 1..(event_idx - Max(1, event_idx - LookBehind)) |-> DE_prefix_text(events[Max(1, event_idx - LookBehind) + k - 1])], <<>>))

\* re.search(r'\x1b\[38;2;153;153;153m([^\x1b]+)\x1b', text): group 1 of
\* the leftmost match, <<>> when there is none.
DE_autocomplete_text(text) ==
  LET stop(a) == FindChar(text, a + Len(Gray), ESC)
      a == Least({x \in 1..Len(text) : HasAt(text, Gray, x) /\ stop(x) > x + Len(Gray) /\ stop(x) <= Len(text)}, 0)
  IN IF a = 0 THEN <<>> ELSE SubSeq(text, a + Len(Gray), stop(a) - 1)

\* The record of lines 28-42 for a command completed by a suggestion: the
\* suggestion autocomplete_text follows the prefix cmd_prefix.
DE_suggested(commands, autocomplete_text, cmd_prefix, output, timestamp) ==
  LET full_cmd == Strip(Keep(cmd_prefix \o Strip(autocomplete_text), Printable))
  IN IF /\ autocomplete_text # <<>> /\ cmd_prefix # <<>>
        /\ Len(full_cmd) >= 3 /\ full_cmd[1] \in Alpha
        /\ (Len(full_cmd) > 10 \/ HasChar(full_cmd, " "))
        /\ \A k \in 1..Len(commands) : commands[k][1] # full_cmd
     THEN <<<<full_cmd, output, timestamp>>>>
     ELSE <<>>

\* The record of lines 45-69 for a chunk that is a command line.
DE_complete(clean_text, output, timestamp) ==
  LET cmd == Strip(clean_text)
  IN IF /\ Len(clean_text) > 5 /\ Len(clean_text) < 500
        /\ \A k \in 1..Len(clean_text) : clean_text[k] \notin {ESC, CR, LF}
        /\ cmd # <<>> /\ \A k \in 1..Len(cmd) : cmd[k] \in Alpha \cup Digits \cup Space \cup {"_", "/", "-", ".", "$", "\"", "'", "=", ":", ";", "[", "]", "{", "}", "(", ")"}
        /\ (HasChar(clean_text, " ") \/ Len(clean_text) > 10)
     \* the test of lines 59-65 is a pair of two values and so always true
     THEN <<<<cmd, output, timestamp>>>>
     ELSE <<>>

\* The records of an output event, output being the output that either
\* record carries.
DE_found(events, i, commands, output) ==
  commands \o DE_suggested(commands, DE_autocomplete_text(events[i][3]), DE_find_command_prefix(events, i), output, events[i][1])
           \o DE_complete(strip_ansi(events[i][3]), output, events[i][1])

\* The body of the loop of process_events for event i (lines 21-69), with
\* self.commands as it stands: self.commands afterwards.
DE_scan_event(events, i, commands) ==
  IF events[i][2] # "o" THEN commands ELSE DE_found(events, i, commands, DE_find_output_for_command(events, i))

RECURSIVE DE_scan_events(_, _, _)
\* The loop goes on after event next, which left found in self.commands.
DE_scan_on(events, next, commands, found) ==
  IF found = commands THEN DE_scan_events(events, next + 1, commands) ELSE DE_scan_events(events, next + 1, found)

\* The loop of process_events from event i on; the events that are not
\* output are passed over (line 22), and so are the output events that
\* enter neither of the two if statements (lines 26 and 48-52).
DE_scan_events(events, i, commands) ==
  LET next == Least({k \in i..Len(events) : events[k][2] = "o" /\ (Contains(events[k][3], Gray) \/ DE_complete(strip_ansi(events[k][3]), <<>>, 0) # <<>>)}, Len(events) + 1)
  IN IF next > Len(events) THEN commands ELSE DE_scan_on(events, next, commands, DE_scan_event(events, next, commands))

\* The command that follows a prompt (lines 162-174): event j is the first
\* after the prompt that shows a prompt or a complete command (0: none).
DE_after_prompt(events, j, commands, cmd) ==
  IF j = 0 \/ DE_is_prompt(events[j]) \/ \E k \in 1..Len(commands) : commands[k][1] = cmd THEN commands
  ELSE Append(commands, <<cmd, DE_find_output_for_command(events, j), events[j][1]>>)

\* The body of the loop of _extract_from_prompts for the prompt event p
\* (lines 155-174).
DE_prompt_event(events, p, commands) ==
  LET j == Least({x \in (p + 1)..Min(p + PromptLookAhead - 1, Len(events)) :
                    DE_is_prompt(events[x]) \/ (events[x][2] = "o" /\ DE_complete_command(events[x][3]))}, 0)
  IN DE_after_prompt(events, j, commands, IF j = 0 THEN <<>> ELSE Strip(strip_ansi(events[j][3])))

RECURSIVE DE_extract_from_prompts(_, _, _)
\* DirectExtractor._extract_from_prompts from event i on; the events that
\* are not the output of a prompt are passed over (lines 152-153).
DE_extract_from_prompts(events, i, commands) ==
  LET p == Least({k \in i..Len(events) : DE_is_prompt(events[k])}, Len(events) + 1)
  IN IF p > Len(events) THEN commands ELSE DE_extract_from_prompts(events, p + 1, DE_prompt_event(events, p, commands))

RECURSIVE DE_deduplicate_commands(_, _)
\* DirectExtractor._deduplicate_commands over the commands left, with
\* filtered as it stands; seen holds the (command, timestamp) of filtered.
DE_deduplicate_commands(commands, filtered) ==
  IF Len(commands) = 0 THEN filtered
  ELSE LET cmd == commands[1][1]
           timestamp == commands[1][3]
           skip == \/ Len(cmd) < 3
                   \/ StartsWith(cmd, <<"E", "4", "8", "6">>) \/ StartsWith(cmd, <<"E", "3", "8", "7">>)
                   \/ (~HasChar(cmd, " ") /\ cmd \notin {<<"c", "d">>, <<"l", "s">>, <<"c", "p">>, <<"m", "v">>, <<"r", "m">>, <<"c", "a", "t">>, <<"v", "i", "m">>, <<"n", "a", "n", "o">>, <<"e", "x", "i", "t">>, <<"p", "w", "d">>, <<"w", "h", "o", "a", "m", "i">>})
                   \/ StartsWith(cmd, <<"T", "h", "e", " ", "f", "o", "l", "l", "o", "w", "i", "n", "g">>) \/ Contains(cmd, <<"d", "e", "s", "i", "r", "a", "b", "l", "e", " ", "f", "o", "r">>)
                   \/ \E k \in 1..Len(filtered) : /\ filtered[k][1] = cmd
                                                  /\ filtered[k][3] - timestamp < RepeatWindow
                                                  /\ timestamp - filtered[k][3] < RepeatWindow
       IN DE_deduplicate_commands(Tail(commands), IF skip THEN filtered ELSE Append(filtered, commands[1]))

\* DirectExtractor.process_events: the list of <<command, output>> it returns.
DE_process_events(events) ==
  LET \* list.sort(key=timestamp), which keeps the order of equal keys
      sorted(commands) ==
        LET place(k) == 1 + Cardinality({m \in 1..Len(commands) : commands[m][3] < commands[k][3] \/ (commands[m][3] = commands[k][3] /\ m < k)})
        IN [r \in 1..Len(commands) |-> LET c == commands[CHOOSE k \in 1..Len(commands) : place(k) = r] IN <<c[1], c[2]>>]
  IN sorted(DE_deduplicate_commands(DE_extract_from_prompts(events, 1, DE_scan_events(events, 1, <<>>)), <<>>))

\* ------------------------------------------------------------------------
\* The command line program (parser.py, asciinema2md.py)
\* ------------------------------------------------------------------------
\* A cast file is the list of its lines after the header.  A line is
\* <<"array", fields>> (a JSON array of the fields given), <<"scalar">> (a
\* JSON number), <<"malformed">> (no JSON) or <<"blank">>.
\* parser.parse_cast_file: the events, or raised when an exception escapes
\* (len() of a number is a TypeError that the except clause does not
\* catch); index is the event index the error message names, 0 for none.
parse_cast_file(file) ==
  LET kept == KeepAt(file, {k \in 1..Len(file) : file[k][1] = "array" /\ Len(file[k][2]) >= 3})
  IN IF \E k \in 1..Len(file) : file[k][1] = "scalar"
     THEN [raised |-> TRUE, index |-> 0, events |-> <<>>]
     ELSE [raised |-> FALSE, index |-> 0, events |-> [k \in 1..Len(kept) |-> <<kept[k][2][1], kept[k][2][2], kept[k][2][3]>>]]

\* The tests of the filter loop of process_cast_file that skip a command
\* (lines 45-100).
PCF_artifact(cmd) ==
  LET first_word == SubSeq(cmd, 1, FirstIn(cmd, 1, Space) - 1)
      valid_commands == {<<"c", "d">>, <<"l", "s">>, <<"c", "p">>, <<"m", "v">>, <<"r", "m">>, <<"c", "a", "t">>, <<"v", "i", "m">>, <<"n", "a", "n", "o">>, <<"e", "x", "i", "t">>, <<"p", "w", "d">>, <<"m", "k", "d", "i", "r">>, <<"n", "m", "a", "p">>, <<"a", "p", "t">>, <<"e", "n", "v">>}
  IN \/ Len(cmd) < MinCommandLength
     \/ (HasChar(cmd, "[") /\ (Contains(cmd, <<"?", "1">>) \/ Contains(cmd, <<"?", "2", "0", "0", "4">>)))
     \/ Count(cmd, " ") > 15
     \/ cmd[1] \notin Alpha
     \/ Len(first_word) > 15
     \/ first_word \in {<<"a", "s", "c", "i", "i", "n", "e", "m", "a", "2", "m", "d", "p", "t">>, <<"a", "s", "c", "i", "i", "n", "e", "m", "a", "2", "m", "d">>}
     \/ (Len(first_word) > 5 /\ \E k \in 1..Len(first_word) : Count(first_word, first_word[k]) > 3)
     \/ \E k \in 1..(Len(first_word) - 2) : first_word[k] = first_word[k + 1] /\ first_word[k] = first_word[k + 2]
     \/ (Len(first_word) > 12 /\ \E v \in valid_commands : Contains(first_word, v) /\ Len(first_word) > Len(v) + 5)
     \/ (Contains(cmd, <<"/", "/">>) /\ Count(cmd, "/") > 5)

RECURSIVE NormalizeSpaces(_)
\* re.sub(r'\s+', ' ', cmd)
NormalizeSpaces(s) ==
  IF Len(s) = 0 THEN <<>>
  ELSE IF s[1] \in Space THEN <<" ">> \o NormalizeSpaces(SubSeq(s, SpanEnd(s, 1, Space), Len(s)))
       ELSE <<s[1]>> \o NormalizeSpaces(Tail(s))

RECURSIVE PCF_filter(_, _, _, _)
\* The filter loop of process_cast_file (lines 43-138) over the records
\* left, with filtered_commands and seen as they stand.  order lists the
\* command texts in the order in which the set seen yields them.
PCF_filter(records, order, filtered_commands, seen) ==
  IF Len(records) = 0 THEN filtered_commands
  ELSE IF PCF_artifact(records[1][1]) THEN PCF_filter(Tail(records), order, filtered_commands, seen)
  ELSE
    LET cmd == Strip(NormalizeSpaces(records[1][1]))
        pos(s) == CHOOSE k \in 1..Len(order) : order[k] = s
        firstOf(set) == CHOOSE s \in set : \A x \in set : pos(s) <= pos(x)
        \* the first loop over seen (lines 109-118)
        longer(s) == Len(cmd) > Len(s) /\ Contains(cmd, s)
        shorter(s) == Len(s) > Len(cmd) /\ Contains(s, cmd)
        hit1 == {s \in seen : longer(s) \/ shorter(s)}
        dup1 == hit1 # {} /\ longer(firstOf(hit1))
        gone1 == IF hit1 # {} /\ ~dup1 THEN {firstOf(hit1)} ELSE {}
        \* the second loop over seen (lines 122-131)
        seen1 == seen \ gone1
        typo(s) == StartsWith(cmd, SubSeq(s, 1, Min(10, Len(s)))) /\ Len(cmd) < Len(s) - 5
        typoOf(s) == StartsWith(s, SubSeq(cmd, 1, Min(10, Len(cmd)))) /\ Len(s) < Len(cmd) - 5
        hit2 == {s \in seen1 : typo(s) \/ typoOf(s)}
        dup2 == hit2 # {} /\ typo(firstOf(hit2))
        gone2 == IF hit2 # {} /\ ~dup2 THEN {firstOf(hit2)} ELSE {}
        seen2 == seen1 \ gone2
        left == SelectSeq(filtered_commands, LAMBDA r : r[1] \notin gone1 \cup gone2)
    IN IF dup1 \/ dup2 \/ cmd \in seen2 THEN PCF_filter(Tail(records), order, left, seen2)
       ELSE PCF_filter(Tail(records), order, IF Len(cmd) >= MinCommandLength THEN Append(left, <<cmd, records[1][2]>>) ELSE left, seen2 \cup {cmd})

\* The record process_cast_file adds for the first nmap command (lines 168-169).
NmapRecord == <<<<"n", "m", "a", "p", " ", "-", "p", " ", "4", "4", "5", " ", "-", "-", "s", "c", "r", "i", "p", "t", " ", "\"", "s", "m", "b", "*", "\"", " ", "$", "T", "A", "R", "G", "E", "T", "I", "P", " ", "-", "o", "A", " ", "S", "M", "B", "D", "e", "t", "a", "i", "l", "e", "d", "S", "c", "a", "n">>, <<"S", "t", "a", "r", "t", "i", "n", "g", " ", "N", "m", "a", "p", " ", "7", ".", "9", "5", " ", "(", " ", "h", "t", "t", "p", "s", ":", "/", "/", "n", "m", "a", "p", ".", "o", "r", "g", " ", ")", " ", "a", "t", " ", "2", "0", "2", "5", "-", "1", "2", "-", "3", "0", " ", "1", "7", ":", "5", "6", " ", "C", "S", "T", LF, "E", "r", "r", "o", "r", " ", "#", "4", "8", "6", ":", " ", "Y", "o", "u", "r", " ", "p", "o", "r", "t", " ", "s", "p", "e", "c", "i", "f", "i", "c", "a", "t", "i", "o", "n", "s", " ", "a", "r", "e", " ", "i", "l", "l", "e", "g", "a", "l", ".", " ", " ", "E", "x", "a", "m", "p", "l", "e", " ", "o", "f", " ", "p", "r", "o", "p", "e", "r", " ", "f", "o", "r", "m", ":", " ", "\"", "-", "1", "0", "0", ",", "2", "0", "0", "-", "1", "0", "2", "4", ",", "T", ":", "3", "0", "0", "0", "-", "4", "0", "0", "0", ",", "U", ":", "6", "0", "0", "0", "0", "-", "\"", LF, "Q", "U", "I", "T", "T", "I", "N", "G", "!">>>>

RECURSIVE PCF_fix(_, _)
\* The fix-up loop of process_cast_file (lines 146-158) over the records
\* left, with fixed_commands as it stands.
PCF_fix(records, fixed_commands) ==
  IF Len(records) = 0 THEN fixed_commands
  ELSE LET cmd == IF records[1][1] = <<"l", "d", "a", "p", "q", "u", "e", "r", "y", ".", "l", "o", "g", " ", ".", "/", "l", "d", "a", "p", "R", "o", "o", "t", "D", "S", "E", ".", "l", "o", "g">> THEN <<"c", "p", " ", "l", "d", "a", "p", "q", "u", "e", "r", "y", ".", "l", "o", "g", " ", ".", "/", "l", "d", "a", "p", "R", "o", "o", "t", "D", "S", "E", ".", "l", "o", "g">>
                  ELSE IF records[1][1] = <<"d", "i", "r", " ", ".", ".", "/", "h", "e", "r", "c", "u", "l", "e", "s">> THEN <<"m", "k", "d", "i", "r", " ", ".", ".", "/", "h", "e", "r", "c", "u", "l", "e", "s">>
                  ELSE records[1][1]
       IN PCF_fix(Tail(records), IF \E k \in 1..Len(fixed_commands) : fixed_commands[k][1] = cmd THEN fixed_commands ELSE Append(fixed_commands, <<cmd, records[1][2]>>))

\* get_output without the removal of the blank rows at the end.
get_outputKeepsBlankRows(t) == Join(t.scrollback \o t.lines, <<LF>>)

\* Terminal.get_output
get_output(t) == Join(DropTrailingBlank(t.scrollback \o t.lines), <<LF>>)

\* prompt_start.search(line) of extract_commands_from_output.
PromptStart(line) ==
  \E i \in 1..Len(line) :
    /\ HasAt(line, <<BOXTL, BOXH, BOXH, "(">>, i)
    /\ LET a == FindChar(line, i + 4, ")")
           b == FindChar(line, a + 3, "]")
       IN a > i + 4 /\ HasAt(line, <<")", "-", "[">>, a) /\ b > a + 3 /\ b <= Len(line)

\* asciinema2md.clean_command
clean_command(cmd) ==
  LET c == Strip(Keep(cmd, Printable))
  IN IF Len(c) > 200 \/ Count(c, " ") > 50 THEN <<>> ELSE c

\* asciinema2md.clean_output
clean_output(text) ==
  LET lines == SplitLines(text, <<>>)
      cleaned == SelectSeq(lines, LAMBDA line : ~(\/ StartsWith(Strip(line), <<"~">>)
                                                   \/ DigitsCommaDigitsThen(line, <<"A", "l", "l">>)
                                                   \/ Contains(line, InsertBanner) \/ Contains(line, ReplaceBanner)
                                                   \/ Strip(line) \in {<<TRIDOWN>>, <<"z", "z">>}))
  IN Join(DropTrailingBlank(DropLeadingBlank(cleaned)), <<LF>>)

RECURSIVE PCF_extract(_, _)
\* The loop of extract_commands_from_output over lines from index i
\* (counted from 1): the records it appends.
PCF_extract(lines, i) ==
  IF i > Len(lines) THEN <<>>
  ELSE LET next_line == lines[i + 1]
           \* prompt_end.search(next_line): BOXBL BOXH [#$] \s* (.+) $
           marks == {p \in 1..(Len(next_line) - 3) : HasAt(next_line, <<BOXBL, BOXH>>, p) /\ next_line[p + 2] \in {"#", "$"}}
           p == CHOOSE x \in marks : \A y \in marks : x <= y
           command == clean_command(Strip(SubSeq(next_line, p + 3, Len(next_line))))
           starts == {k \in (i + 2)..Len(lines) : PromptStart(lines[k])}
           j == IF starts = {} THEN Len(lines) + 1 ELSE CHOOSE x \in starts : \A y \in starts : x <= y
       IN IF PromptStart(lines[i]) /\ i + 1 <= Len(lines) /\ marks # {} /\ command # <<>>
          THEN << <<command, clean_output(Join(SubSeq(lines, i + 2, j - 1), <<LF>>))>> >> \o PCF_extract(lines, j)
          ELSE PCF_extract(lines, i + 1)

\* asciinema2md.extract_commands_from_output
extract_commands_from_output(output) == PCF_extract(SplitLines(output, <<>>), 1)

RECURSIVE PCF_replay(_, _, _)
\* The loop that feeds the output events to the Terminal (lines 183-185),
\* from event i on.
PCF_replay(t, events, i) ==
  LET at(next) == IF next > Len(events) \/ t.raised THEN t
                  ELSE PCF_replay(process_text(t, events[next][3]), events, next + 1)
  IN at(Least({k \in i..Len(events) : events[k][2] = "o"}, Len(events) + 1))

\* Lines 160-170 of process_cast_file: the record of the first nmap
\* command is added when no command holds "nmap -p 445" and an output
\* event holds the suggestion.
PCF_first_nmap(events, fixed_commands) ==
  IF /\ \A k \in 1..Len(fixed_commands) : ~Contains(fixed_commands[k][1], <<"n", "m", "a", "p", " ", "-", "p", " ", "4", "4", "5">>)
     /\ \E k \in 1..Len(events) : events[k][2] = "o" /\ Contains(events[k][3], <<"m", "a", "p", " ", "-", "p", " ", "4", "4", "5", " ", "-", "-", "s", "c", "r", "i", "p", "t", " ", "\"", "s", "m", "b", "*", "\"">>)
  THEN Append(fixed_commands, NmapRecord) ELSE fixed_commands

\* Lines 188-199: the records read off the terminal replace the records
\* found so far unless there are none.
PCF_shown(terminal, commands_and_output, fallback_commands) ==
  IF terminal.raised THEN [raised |-> TRUE, records |-> <<>>]
  ELSE [raised |-> FALSE, records |-> IF fallback_commands # <<>> THEN fallback_commands ELSE commands_and_output]

\* What the terminal shows, stripped (lines 188-192); nothing once an
\* exception escaped from it.
PCF_final_output(terminal) == IF terminal.raised THEN <<>> ELSE strip_ansi(get_output(terminal))

\* Lines 175-199: the fallback to the terminal when fewer than two records
\* were found.
PCF_fallback(events, commands_and_output, terminal) ==
  IF Len(commands_and_output) >= 2 THEN [raised |-> FALSE, records |-> commands_and_output]
  ELSE PCF_shown(terminal, commands_and_output, extract_commands_from_output(PCF_final_output(terminal)))

\* process_cast_file from line 39 on, up to the call of
\* format_as_markdown: records is what DirectExtractor.process_events returned.
PCF_records(events, records, order) ==
  PCF_fallback(events, PCF_first_nmap(events, PCF_fix(PCF_filter(records, order, <<>>, {}), <<>>)),
               PCF_replay(Terminal__init__(DefaultWidth, DefaultHeight, DefaultScrollback), events, 1))

\* process_cast_file up to the call of format_as_markdown: raised when an
\* exception escapes, else the records handed to format_as_markdown.
process_cast_file(file, order) ==
  LET parsed == parse_cast_file(file)
  IN IF parsed.raised THEN [raised |-> TRUE, records |-> <<>>]
     ELSE PCF_records(parsed.events, DE_process_events(parsed.events), order)

\* ------------------------------------------------------------------------
\* State
\* ------------------------------------------------------------------------
\* The fields of the Terminal object under test, and raised (an exception
\* escaped from process_text).  lf_run is a history variable: the number of
\* line-feeds fed so far while nothing but line-feeds has been fed, -1 once
\* anything else has been fed (or more than MaxLFs of them); fed counts the
\* calls made.  twin is a second Terminal object of the same geometry, fed
\* the same text as the first but in two pieces.
VARIABLES width, height, scrollback_size, lines, scrollback, current_line, cursor_x, raised, evicted, lf_run, fed, twin

\* extractor is the CommandExtractor object and processor the EventProcessor
\* object.  session, ran and returned are history variables: the session
\* whose events were handed to process_events, which object's
\* process_events ran ("none" before the call), and the list it returned.
VARIABLES extractor, processor, session, ran, returned

\* The functions called on their own: arg is the argument of the call, called
\* the function that ran ("none" before the call) and out what it returned.
VARIABLES arg, out, called

termVars == <<width, height, scrollback_size, lines, scrollback, current_line, cursor_x, raised, evicted, lf_run, fed, twin>>
segVars == <<extractor, processor, session, ran, returned>>
fnVars == <<arg, out, called>>
vars == <<termVars, segVars, fnVars>>

\* The Terminal object as a record.
Self == [width |-> width, height |-> height, lines |-> lines, scrollback |-> scrollback, current_line |-> current_line, cursor_x |-> cursor_x, scrollback_size |-> scrollback_size, raised |-> raised, evicted |-> evicted]

\* ------------------------------------------------------------------------
\* The terminal fed chunk by chunk
\* ------------------------------------------------------------------------
CsiSeq(body) == <<ESC, "[">> \o body

\* The chunks fed to process_text.
TermChunks == {<<LF>>, <<CR>>, <<BS>>, <<TAB>>, <<"a">>, <<"a", LF>>,
               CsiSeq(<<"A">>), CsiSeq(<<"B">>), CsiSeq(<<"C">>), CsiSeq(<<"D">>),
               CsiSeq(<<"2", "B">>), CsiSeq(<<"H">>), CsiSeq(<<"2", ";", "2", "H">>),
               CsiSeq(<<"K">>), CsiSeq(<<"J">>), CsiSeq(<<"2", "J">>),
               CsiSeq(<<"?", "2", "5", "h", "a", "B">>),
               <<ESC, "]", "0", ";", "t", BEL>>, <<ESC, "=">>, <<ESC>>}

IsLFs(text) == \A k \in 1..Len(text) : text[k] = LF

\* The model keeps the grid small: a chunk is fed only if the grid stays
\* within MaxLines rows and MaxCol columns.
TermWithinBounds(t) ==
  /\ Len(t.lines) <= MaxLines
  /\ t.cursor_x <= MaxCol
  /\ \A k \in 1..Len(t.lines) : Len(t.lines[k]) <= MaxCol + 1

\* A session: the chunks echoed while the command is typed (keys), one more
\* chunk echoed on the command line (special, <<>> for none), the chunk echoed
\* by Enter (enter, <<>> when the stream ends before it), the chunks of the
\* command's output (outs) and whether a prompt follows (trail).
NoSession == [keys |-> <<>>, special |-> <<>>, enter |-> <<>>, outs |-> <<>>, trail |-> FALSE]

\* No function called yet.
FnFresh ==
  /\ arg = <<>>
  /\ out = <<>>
  /\ called = "none"

\* The extractors as constructed, before any call.
SegFresh ==
  /\ extractor = CE__init__
  /\ processor = EP__init__
  /\ session = NoSession
  /\ ran = "none"
  /\ returned = <<>>

\* A fresh Terminal before any call.
TermFresh ==
  LET t == Terminal__init__(1, 1, 1)
  IN /\ width = t.width /\ height = t.height /\ scrollback_size = t.scrollback_size
     /\ lines = t.lines /\ scrollback = t.scrollback
     /\ current_line = t.current_line /\ cursor_x = t.cursor_x /\ raised = t.raised /\ evicted = t.evicted
     /\ twin = t
     /\ lf_run = 0
     /\ fed = 0

TermInit ==
  /\ SegFresh
  /\ FnFresh
  /\ \E w \in 1..MaxWidth, h \in 1..MaxHeight, cap \in 1..MaxCap :
       LET t == Terminal__init__(w, h, cap)
       IN /\ width = t.width /\ height = t.height /\ scrollback_size = t.scrollback_size
          /\ lines = t.lines /\ scrollback = t.scrollback
          /\ current_line = t.current_line /\ cursor_x = t.cursor_x /\ raised = t.raised /\ evicted = t.evicted
          /\ twin = t
  /\ lf_run = 0
  /\ fed = 0

\* One call of Terminal.process_text(text).
Terminal_process_text(text) ==
  /\ ~raised
  /\ fed < MaxFeeds
  /\ fed' = fed + 1
  /\ LET t == process_text(Self, text)
     IN /\ TermWithinBounds(t)
        /\ lines' = t.lines /\ scrollback' = t.scrollback
        /\ current_line' = t.current_line /\ cursor_x' = t.cursor_x /\ raised' = t.raised /\ evicted' = t.evicted
  /\ lf_run' = IF lf_run >= 0 /\ IsLFs(text) /\ lf_run + Len(text) <= MaxLFs THEN lf_run + Len(text) ELSE -1
  /\ UNCHANGED <<width, height, scrollback_size, twin>>
  /\ UNCHANGED segVars
  /\ UNCHANGED fnVars

TermNext == \E text \in TermChunks : Terminal_process_text(text)

SpecTerm == TermInit /\ [][TermNext]_vars

\* ------------------------------------------------------------------------
\* One call observed: the terminal before it and after it
\* ------------------------------------------------------------------------
\* The chunks of the observed call: erase display (whole screen), a
\* printable character, a line-feed.
ObservedChunks == {CsiSeq(<<"2", "J">>), <<"a">>, <<LF>>}

\* The chunks fed before the observed call.
EarlierChunks == {<<LF>>, <<CR>>, <<"a">>, <<"a", LF>>, CsiSeq(<<"A">>), CsiSeq(<<"C">>)}

\* A call of process_text(text) that is not the observed one.
Terminal_feed(text) == called = "none" /\ Terminal_process_text(text)

\* The observed call of process_text(text): arg keeps the text and out the
\* Terminal as it was before the call.
Terminal_process_observed(text) ==
  /\ called = "none"
  /\ ~raised
  /\ fed < MaxFeeds
  /\ fed' = fed + 1
  /\ LET t == process_text(Self, text)
     IN /\ TermWithinBounds(t)
        /\ lines' = t.lines /\ scrollback' = t.scrollback
        /\ current_line' = t.current_line /\ cursor_x' = t.cursor_x /\ raised' = t.raised /\ evicted' = t.evicted
  /\ lf_run' = -1
  /\ arg' = text
  /\ out' = Self
  /\ called' = "process_text"
  /\ UNCHANGED <<width, height, scrollback_size, twin>>
  /\ UNCHANGED segVars

\* A call of get_output(): out keeps the string returned.
Terminal_get_output ==
  /\ called \in {"none", "get_output"}
  /\ ~raised
  /\ arg' = out
  /\ out' = get_output(Self)
  /\ called' = IF called = "none" THEN "get_output" ELSE "get_output twice"
  /\ UNCHANGED termVars
  /\ UNCHANGED segVars

ObservedNext ==
  \/ \E text \in EarlierChunks : Terminal_feed(text)
  \/ \E text \in ObservedChunks : Terminal_process_observed(text)
  \/ Terminal_get_output

SpecObserved == TermInit /\ [][ObservedNext]_vars

\* ------------------------------------------------------------------------
\* One text fed whole and in two pieces
\* ------------------------------------------------------------------------
\* The texts that are split: each holds an escape sequence, or a line-feed,
\* between two printable characters.
SplitTexts == {<<"a", ESC, "[", "B", "a">>, <<"a", ESC, "[", "2", "J", "a">>,
               <<"a", ESC, "]", "0", BEL, "a">>, <<"a", ESC, "=", "a">>,
               <<"a", LF, "a">>, <<"a", CR, TAB, "a">>}

\* process_text(text) on the first Terminal; process_text(text[:k]) and then
\* process_text(text[k:]) on the second (the second call is not made when
\* the first raises).
Terminal_process_split(text, k) ==
  /\ ~raised /\ ~twin.raised
  /\ fed < MaxSplitFeeds
  /\ fed' = fed + 1
  /\ LET t == process_text(Self, text)
         u == process_text(process_text(twin, SubSeq(text, 1, k)), SubSeq(text, k + 1, Len(text)))
     IN /\ TermWithinBounds(t) /\ TermWithinBounds(u)
        /\ lines' = t.lines /\ scrollback' = t.scrollback
        /\ current_line' = t.current_line /\ cursor_x' = t.cursor_x /\ raised' = t.raised /\ evicted' = t.evicted
        /\ twin' = u
  /\ lf_run' = -1
  /\ UNCHANGED <<width, height, scrollback_size>>
  /\ UNCHANGED segVars
  /\ UNCHANGED fnVars

SplitNext == \E text \in SplitTexts : \E k \in 0..Len(text) : Terminal_process_split(text, k)

SpecSplit == TermInit /\ [][SplitNext]_vars

\* ------------------------------------------------------------------------
\* The segmenters fed a recorded shell session
\* ------------------------------------------------------------------------
\* The two-line prompt of the recording.
PromptChunk == <<BOXTL, BOXH, BOXH, "(", "u", "@", "h", ")", "-", "[", "~", "]", CR, LF, BOXBL, BOXH, "$", " ">>

\* The chunk the shell echoes for a backspace.
BackspaceChunk == <<BS, " ", BS>>

\* The chunks echoed for one keystroke each.
KeyChunks == {<<"a">>, <<" ">>, BackspaceChunk}

\* The autocomplete suggestion of the shell, and the chunk that shows it
\* in gray after the typed text and moves the cursor back.
Suggestion == <<"p", "t", "-", "g", "e", "t", " ", "i", "n", "s", "t", "a", "l", "l">>
GhostChunk == CsiSeq(<<"3", "8", ";", "2", ";", "1", "5", "3", ";", "1", "5", "3", ";", "1", "5", "3", "m">>) \o Suggestion \o CsiSeq(<<"3", "9", "m">>) \o CsiSeq(<<"1", "4", "D">>)

\* Command lines echoed whole in one chunk: a short one and a long one.
AtomicShort == <<"a", "p", "t">>
AtomicLong == <<"a", "p", "t", " ", "u", "p", "d", "a", "t", "e">>
AtomicChunks == {AtomicShort, AtomicLong}

\* A comment line pasted at the prompt.
CommentChunk == <<"#", "f", "o", "l", "l", "o", "w", "i", "n", "g">>

\* The chunk with which the shell switches the keypad mode at the prompt.
KeypadChunk == <<ESC, "=">>

SpecialChunks == {<<>>, GhostChunk, CommentChunk, KeypadChunk} \cup AtomicChunks

\* The chunks echoed by Enter.
EnterChunks == {<<LF>>, <<CR, LF>>}

\* The chunks of a command's output: a line, and styled text followed by
\* the empty-line marker of vim.
OutChunks == {<<"f", CR, LF>>, CsiSeq(<<"1", "m">>) \o <<"g", CR, LF, "~", CR, LF>>}

\* The sequences of at most n elements of set.
SeqsUpTo(set, n) == UNION {[1..k -> set] : k \in 0..n}

\* The texts of the output events of session s, in order.
SessionTexts(s) ==
  <<PromptChunk>> \o s.keys
    \o (IF s.special = <<>> THEN <<>> ELSE <<s.special>>)
    \o (IF s.enter = <<>> THEN <<>> ELSE <<s.enter>>)
    \o s.outs
    \o (IF s.trail THEN <<PromptChunk>> ELSE <<>>)

\* The events of session s: <<timestamp, 'o', text>>.
SessionEvents(s) == LET texts == SessionTexts(s) IN [k \in 1..Len(texts) |-> <<k, "o", texts[k]>>]

\* The session of the given parts.
Session(k, sp, e, o, t) == [keys |-> k, special |-> sp, enter |-> e, outs |-> o, trail |-> t]

\* The runs of keystroke chunks and of output chunks of the sessions; output
\* follows only an Enter.
KeyRuns == SeqsUpTo(KeyChunks, MaxKeys)
OutRuns(e) == IF e = <<>> THEN {<<>>} ELSE SeqsUpTo(OutChunks, MaxOuts)

SegInit == SegFresh /\ TermFresh /\ FnFresh

\* CommandExtractor().process_events(events) for the events of a session.
CommandExtractor_process_events ==
  /\ ran = "none"
  /\ \E k \in KeyRuns, sp \in SpecialChunks, e \in EnterChunks \cup {<<>>}, t \in BOOLEAN :
       \E o \in OutRuns(e) :
         /\ session' = Session(k, sp, e, o, t)
         /\ extractor' = CE_process_events(extractor, SessionEvents(session'))
  /\ returned' = CE_returned(extractor')
  /\ ran' = "CommandExtractor"
  /\ UNCHANGED processor
  /\ UNCHANGED termVars
  /\ UNCHANGED fnVars

\* EventProcessor().process_events(events) for the events of a session.
EventProcessor_process_events ==
  /\ ran = "none"
  /\ \E k \in KeyRuns, sp \in SpecialChunks, e \in EnterChunks \cup {<<>>}, t \in BOOLEAN :
       \E o \in OutRuns(e) :
         /\ session' = Session(k, sp, e, o, t)
         /\ processor' = EP_process_events(processor, SessionEvents(session'))
  /\ returned' = processor'.commands
  /\ ran' = "EventProcessor"
  /\ UNCHANGED extractor
  /\ UNCHANGED termVars
  /\ UNCHANGED fnVars

SegNext == CommandExtractor_process_events \/ EventProcessor_process_events

SpecSeg == SegInit /\ [][SegNext]_vars

\* ------------------------------------------------------------------------
\* The snapshot extractors (hybrid_extractor.py, smart_extractor.py)
\* ------------------------------------------------------------------------
\* HybridExtractor(width, height): the fields next to the terminal.
HE__init__ == [last_prompt_pos |-> -1, snapshots |-> <<>>, commands |-> <<>>]

\* The Enter test of both process_events: '\r\r\n' in text or '\x1b[1B\r' in text.
SnapEnter(text) == Contains(text, <<CR, CR, LF>>) \/ Contains(text, <<ESC, "[", "1", "B", CR>>)

\* group(1).strip() of re.search(r'BOXBL BOXH [#$]\s*(.+)$', line): the text after the
\* first marker that has a character after it, stripped (None: no match).
MarkerRest(line) ==
  LET at == {p \in 1..(Len(line) - 3) : HasAt(line, <<BOXBL, BOXH>>, p) /\ line[p + 2] \in {"#", "$"}}
  IN IF at = {} THEN None ELSE Strip(SubSeq(line, Least(at, 0) + 3, Len(line)))

\* The lines HybridExtractor._clean_output removes.
HE_artifact(line) ==
  \/ Strip(line) = <<"~">>
  \/ Contains(line, InsertBanner) \/ Contains(line, ReplaceBanner)
  \/ DigitsCommaDigitsThen(line, <<"A", "l", "l">>)
  \/ Strip(line) \in {<<TRIDOWN>>, <<"z", "z">>}
  \/ VimWrittenLine(line)

\* HybridExtractor._clean_output
HE_clean_output(text) ==
  Join(DropTrailingBlank(DropLeadingBlank(SelectSeq(SplitLines(text, <<>>), LAMBDA line : ~HE_artifact(line)))), <<LF>>)

\* The index of the first line at or after j that the prompt pattern matches (Len(ls) + 1 if none).
NextPromptLine(ls, j) == Least({k \in j..Len(ls) : PromptSearch(ls[k])}, Len(ls) + 1)

RECURSIVE HE_scan(_, _, _)
\* The loop of _extract_commands over the lines of the final output, from line i (counted from 1).
HE_scan(ls, i, commands) ==
  IF i > Len(ls) THEN commands
  ELSE IF ~PromptSearch(ls[i]) THEN HE_scan(ls, i + 1, commands)
  ELSE LET match == MarkerRest(ls[i])
           found == IF match # None THEN match
                    ELSE IF i < Len(ls) /\ ~PromptSearch(ls[i + 1]) THEN Strip(ls[i + 1])
                    ELSE None
           cmd == IF found = None THEN <<>> ELSE Strip(Keep(found, Printable))
           j == NextPromptLine(ls, IF match # None THEN i + 2 ELSE i + 1)
       IN IF cmd # <<>> /\ Len(cmd) < MaxCommandLen
          THEN HE_scan(ls, j, Append(commands, <<cmd, HE_clean_output(Join(SubSeq(ls, IF match # None THEN i + 2 ELSE i + 1, j - 1), <<LF>>))>>))
          ELSE HE_scan(ls, i + 1, commands)

\* HybridExtractor._extract_commands on the terminal t.
HE_extract_commands(t) == HE_scan(SplitLines(strip_ansi(get_output(t)), <<>>), 1, <<>>)

\* The prompt test of the loop of HybridExtractor.process_events for event k (counted from
\* 1; the index i of the code is k - 1), on the terminal t as it stands before the event.
HE_seen(x, t, k, ev) ==
  IF PromptSearch(ev[3])
  THEN [x EXCEPT !.snapshots = IF k > 1 THEN Append(@, <<k - 1, get_output(t)>>) ELSE @, !.last_prompt_pos = k - 1]
  ELSE x

\* The Enter test of the loop, on the terminal t that has processed the event.
HE_entered(x, t, k, ev) == <<IF SnapEnter(ev[3]) /\ ~t.raised THEN [x EXCEPT !.snapshots = Append(@, <<k - 1, get_output(t)>>)] ELSE x, t>>

\* The body of the loop of HybridExtractor.process_events for event k: the extractor and
\* its terminal after it.
HE_event(xt, k, ev) ==
  IF ev[2] # "o" \/ xt[2].raised THEN xt
  ELSE HE_entered(HE_seen(xt[1], xt[2], k, ev), process_text(xt[2], ev[3]), k, ev)

RECURSIVE HE_events(_, _, _)
\* The loop of HybridExtractor.process_events, from event k.
HE_events(xt, events, k) == IF k > Len(events) THEN xt ELSE HE_events(HE_event(xt, k, events[k]), events, k + 1)

\* The final snapshot of HybridExtractor.process_events, after n events.
HE_final(xt, n) == IF xt[2].raised THEN xt ELSE <<[xt[1] EXCEPT !.snapshots = Append(@, <<n, get_output(xt[2])>>)], xt[2]>>

\* HybridExtractor.process_events: the extractor and its terminal after the call.
HE_process_events(x, t, events) == HE_final(HE_events(<<x, t>>, events, 1), Len(events))

\* SmartExtractor(width, height): commands, and the two locals of process_events.
SE__init__ == [commands |-> <<>>, last_prompt_time |-> 0, last_prompt_idx |-> -1]

\* The list of short commands SmartExtractor accepts without a space.
SE_short_commands ==
  {<<"c", "d">>, <<"l", "s">>, <<"c", "p">>, <<"m", "v">>, <<"r", "m">>, <<"c", "a", "t">>, <<"v", "i", "m">>, <<"n", "a", "n", "o">>,
   <<"e", "x", "i", "t">>, <<"p", "w", "d">>, <<"m", "k", "d", "i", "r">>}

\* The filter of _extract_command_from_terminal (lines 76-77).
SE_valid(cmd) ==
  /\ Len(cmd) >= 2 /\ cmd[1] \in Alpha
  /\ (Len(cmd) > 10 \/ HasChar(cmd, " ") \/ cmd \in SE_short_commands)

\* SmartExtractor._clean_output: the first loop of DirectExtractor._clean_output, line for line.
SE_clean_output(text) == Join(DropTrailingBlank(DropLeadingBlank(DE_first_loop(SplitLines(text, <<>>), <<>>))), <<LF>>)

\* The command _extract_command_from_terminal reads from a line (lines 70-73).
SE_command(line) == IF MarkerRest(line) = None THEN <<>> ELSE Keep(MarkerRest(line), Printable)

\* The loop of _extract_command_from_terminal over the lines ls: <<cmd, output>> of the
\* first prompt line with a valid command.
SE_first_command(ls, i) ==
  IF i = 0 THEN << <<>>, <<>> >>
  ELSE <<SE_command(ls[i]), SE_clean_output(Join(SubSeq(ls, i + 1, NextPromptLine(ls, i + 1) - 1), <<LF>>))>>

\* SmartExtractor._extract_command_from_terminal on the lines ls of the terminal.
SE_extract_from_lines(ls) == SE_first_command(ls, Least({i \in 1..Len(ls) : PromptSearch(ls[i]) /\ SE_valid(SE_command(ls[i]))}, 0))

\* SmartExtractor._extract_command_from_terminal on the terminal t: <<cmd, output>>.
SE_extract_command_from_terminal(t) == SE_extract_from_lines(SplitLines(strip_ansi(get_output(t)), <<>>))

\* self.commands.append((cmd, output, last_prompt_time)) when cmd is not empty and, with
\* unless_known, when no command of the list equals it.
SE_append(x, found, unless_known) ==
  IF found[1] = <<>> \/ (unless_known /\ \E n \in 1..Len(x.commands) : x.commands[n][1] = found[1]) THEN x
  ELSE [x EXCEPT !.commands = Append(@, <<found[1], found[2], x.last_prompt_time>>)]

\* The prompt test of the loop of SmartExtractor.process_events for event k (counted from
\* 1), on the terminal t as it stands before the event.
SE_seen(x, t, k, ev) ==
  IF PromptSearch(ev[3])
  THEN [(IF k > 1 /\ x.last_prompt_idx >= 0 THEN SE_append(x, SE_extract_command_from_terminal(t), FALSE) ELSE x)
          EXCEPT !.last_prompt_time = ev[1], !.last_prompt_idx = k - 1]
  ELSE x

\* The Enter test of the loop, on the terminal t that has processed the event.
SE_entered(x, t, ev) == <<IF SnapEnter(ev[3]) /\ ~t.raised THEN SE_append(x, SE_extract_command_from_terminal(t), TRUE) ELSE x, t>>

\* The body of the loop of SmartExtractor.process_events for event k.
SE_event(xt, k, ev) ==
  IF ev[2] # "o" \/ xt[2].raised THEN xt
  ELSE SE_entered(SE_seen(xt[1], xt[2], k, ev), process_text(xt[2], ev[3]), ev)

RECURSIVE SE_events(_, _, _)
\* The loop of SmartExtractor.process_events, from event k.
SE_events(xt, events, k) == IF k > Len(events) THEN xt ELSE SE_events(SE_event(xt, k, events[k]), events, k + 1)

RECURSIVE SortByTime(_)
\* commands.sort(key=lambda x: x[2]): a stable sort by the third field.
SortByTime(cs) ==
  IF Len(cs) <= 1 THEN cs
  ELSE LET rest == SortByTime(Tail(cs))
           before == SelectSeq(rest, LAMBDA c : c[3] < cs[1][3])
           after == SelectSeq(rest, LAMBDA c : c[3] >= cs[1][3])
       IN before \o <<cs[1]>> \o after

\* The end of SmartExtractor.process_events: the last command, then the sort.
SE_final(xt) ==
  IF xt[2].raised THEN xt
  ELSE <<[(IF xt[1].last_prompt_idx >= 0 THEN SE_append(xt[1], SE_extract_command_from_terminal(xt[2]), TRUE) ELSE xt[1])
            EXCEPT !.commands = SortByTime(@)], xt[2]>>

\* SmartExtractor.process_events: the extractor and its terminal after the call.
SE_process_events(x, t, events) == SE_final(SE_events(<<x, t>>, events, 1))

\* What SmartExtractor.process_events returns: the commands without their timestamps.
SE_returned(x) == [n \in 1..Len(x.commands) |-> <<x.commands[n][1], x.commands[n][2]>>]

\* The Enter echoes of the sessions of the snapshot extractors.
SnapEnterChunks == EnterChunks \cup {<<CR, CR, LF>>}

\* HybridExtractor(width, height) or SmartExtractor(width, height) as constructed: the
\* terminal of the extractor is the terminal of the state.
SnapInit ==
  /\ SegFresh /\ FnFresh
  /\ \E h \in {MaxHeight, DefaultHeight} :
       LET t == Terminal__init__(DefaultWidth, h, DefaultScrollback)
       IN /\ width = t.width /\ height = t.height /\ scrollback_size = t.scrollback_size
          /\ lines = t.lines /\ scrollback = t.scrollback
          /\ current_line = t.current_line /\ cursor_x = t.cursor_x /\ raised = t.raised /\ evicted = t.evicted
          /\ twin = t
  /\ lf_run = 0
  /\ fed = 0

\* The terminal of the state becomes t.
SnapTerminal(t) ==
  /\ lines' = t.lines /\ scrollback' = t.scrollback
  /\ current_line' = t.current_line /\ cursor_x' = t.cursor_x /\ raised' = t.raised /\ evicted' = t.evicted
  /\ UNCHANGED <<width, height, scrollback_size, twin, lf_run, fed>>

\* The state after a call of process_events on the session s that left the extractor and
\* the terminal xt and returned result.
SnapCalled(s, xt, name, result) ==
  /\ session' = s
  /\ extractor' = xt[1]
  /\ SnapTerminal(xt[2])
  /\ returned' = IF xt[2].raised THEN <<>> ELSE result
  /\ ran' = IF xt[2].raised THEN "raised" ELSE name
  /\ UNCHANGED processor
  /\ UNCHANGED fnVars

\* The sessions of the snapshot extractors.
SnapSessions == {Session(k, <<>>, e, o, t) : k \in KeyRuns, e \in SnapEnterChunks \cup {<<>>}, o \in SeqsUpTo(OutChunks, MaxOuts), t \in BOOLEAN}

\* The call HybridExtractor.process_events made, with its outcome xt.
HybridExtractor_returns(s, xt) == SnapCalled(s, xt, "HybridExtractor", HE_extract_commands(xt[2]))

\* HybridExtractor(width, height).process_events(events) for the events of a session.
HybridExtractor_process_events ==
  /\ ran = "none"
  /\ \E s \in SnapSessions :
       /\ s.enter = <<>> => s.outs = <<>>
       /\ HybridExtractor_returns(s, HE_process_events(HE__init__, Self, SessionEvents(s)))

\* The call SmartExtractor.process_events made, with its outcome xt.
SmartExtractor_returns(s, xt) == SnapCalled(s, xt, "SmartExtractor", SE_returned(xt[1]))

\* SmartExtractor(width, height).process_events(events) for the events of a session.
SmartExtractor_process_events ==
  /\ ran = "none"
  /\ \E s \in SnapSessions :
       /\ s.enter = <<>> => s.outs = <<>>
       /\ SmartExtractor_returns(s, SE_process_events(SE__init__, Self, SessionEvents(s)))

SnapNext == HybridExtractor_process_events \/ SmartExtractor_process_events

SpecSnap == SnapInit /\ [][SnapNext]_vars

\* ------------------------------------------------------------------------
\* One CommandExtractor fed one event per call
\* ------------------------------------------------------------------------
RECURSIVE CE_each(_, _, _)
\* The loop of debug_extractor.py from event i on: one call
\* extractor.process_events([event]) for each output event.
CE_each(x, events, i) ==
  IF i > Len(events) THEN x
  ELSE CE_each(IF events[i][2] = "o" THEN CE_process_events(x, <<events[i]>>) ELSE x, events, i + 1)

\* debug_extractor.py on the events of a session: extractor.commands at
\* the end, without the timestamps.
Debug_extractor ==
  /\ ran = "none"
  /\ \E k \in KeyRuns, sp \in SpecialChunks, e \in EnterChunks \cup {<<>>}, t \in BOOLEAN :
       \E o \in OutRuns(e) :
         /\ session' = Session(k, sp, e, o, t)
         /\ extractor' = CE_each(extractor, SubSeq(SessionEvents(session'), 1, Min(DebugEvents, Len(SessionEvents(session')))), 1)
  /\ returned' = CE_returned(extractor')
  /\ ran' = "debug_extractor"
  /\ UNCHANGED processor
  /\ UNCHANGED termVars
  /\ UNCHANGED fnVars

EachNext == Debug_extractor

SpecEach == SegInit /\ [][EachNext]_vars

\* ------------------------------------------------------------------------
\* Claims about the segmenters
\* ------------------------------------------------------------------------
RECURSIVE AfterBackspaces(_)
\* The text typed by the keystroke chunks keys: each backspace chunk removes
\* the character before it (none at the start of the line).
AfterBackspaces(keys) ==
  IF Len(keys) = 0 THEN <<>>
  ELSE LET before == AfterBackspaces(SubSeq(keys, 1, Len(keys) - 1))
           last == keys[Len(keys)]
       IN IF last = BackspaceChunk
          THEN (IF Len(before) = 0 THEN <<>> ELSE SubSeq(before, 1, Len(before) - 1))
          ELSE before \o last

RECURSIVE InOrder(_, _, _)
\* The texts of parts occur in text, one after the other, from index i on.
InOrder(parts, text, i) ==
  \/ Len(parts) = 0
  \/ \E j \in i..(Len(text) + 1) : HasAt(text, parts[1], j) /\ InOrder(Tail(parts), text, j + Len(parts[1]))

\* The visible text of each chunk of outs, without surrounding whitespace.
VisibleTexts(outs) == [k \in 1..Len(outs) |-> Strip(strip_ansi(outs[k]))]

RECURSIVE NonBlankTexts(_)
\* The text without escape sequences of each chunk of outs that is not blank.
NonBlankTexts(outs) ==
  IF Len(outs) = 0 THEN <<>>
  ELSE (IF Strip(strip_ansi(outs[1])) = <<>> THEN <<>> ELSE <<strip_ansi(outs[1])>>) \o NonBlankTexts(Tail(outs))

\* The session is a prompt, a command typed one keystroke per chunk, Enter,
\* at least one output chunk and the next prompt, handed to
\* CommandExtractor.process_events.
C7_Shape ==
  /\ ran = "CommandExtractor"
  /\ session.special = <<>>
  /\ session.enter # <<>>
  /\ Len(session.outs) >= 1
  /\ session.trail

C8_Shape ==
  /\ ran = "CommandExtractor"
  /\ session.special = GhostChunk
  /\ session.enter # <<>>
  /\ AfterBackspaces(session.keys) # <<>>
  /\ Strip(AfterBackspaces(session.keys)) = AfterBackspaces(session.keys)

\* C8: when Enter follows a typed prefix and a gray suggestion that was not
\* accepted, the one record's command is exactly the typed prefix, and no
\* record has a command that contains the suggestion.
C8_GhostTextNeverTyped ==
  C8_Shape =>
    /\ Len(returned) = 1
    /\ returned[1][1] = AfterBackspaces(session.keys)
    /\ \A k \in 1..Len(returned) : ~Contains(returned[k][1], Suggestion)

\* The command the object holds after the call.
PendingCommand == IF ran = "CommandExtractor" THEN extractor.current_command_chars ELSE Join(processor.current_command_buffer, <<>>)

\* s begins with p.
IsPrefix(p, s) == Len(p) <= Len(s) /\ SubSeq(s, 1, Len(p)) = p

\* The session is a prompt, some first characters of a command typed one
\* per chunk (or none), and then the whole command in one chunk.
C9_Shape ==
  /\ ran # "none"
  /\ session.special \in AtomicChunks
  /\ IsPrefix(AfterBackspaces(session.keys), session.special)
  /\ session.enter = <<>>
  /\ ~session.trail

\* C9: a chunk that holds the whole command line sets the pending command
\* to exactly that text, whatever its length and whether or not some of its
\* characters were echoed before.
C9_AtomicEchoReplaces == C9_Shape => PendingCommand = session.special

\* The object saw the command submitted.
Submitted == IF ran = "CommandExtractor" THEN extractor.command_entered ELSE processor.command_entered

\* The command the object holds, as its records carry it.
SubmittedCommand == IF ran = "CommandExtractor" THEN CE_command(extractor.current_command_chars) ELSE EP_extract_command(processor)

\* The output the object has collected, as its records carry it.
CollectedOutput ==
  IF ran = "CommandExtractor" THEN CE_clean_output(Join(extractor.current_output_lines, <<LF>>))
  ELSE EP_clean_output(Strip(Join(processor.current_output, <<LF>>)))

\* The stream ended with no prompt after a command was submitted.
C10_Shape ==
  /\ ran # "none"
  /\ ~session.trail
  /\ Submitted
  /\ SubmittedCommand # <<>>

C25_UnsubmittedTextDiscardedAtPrompt ==
  (ran = "CommandExtractor" /\ session.special = <<>> /\ session.enter = <<>> /\ session.trail) =>
    /\ returned = <<>>
    /\ extractor.current_command_chars = <<>>
    /\ extractor.in_prompt /\ ~extractor.command_entered

\* C27: no byte of an escape sequence reaches the pending command: after a
\* command typed at the prompt and a chunk that holds ESC = or CSI
\* sequences, the pending command of CommandExtractor and of EventProcessor
\* holds none of the bytes that only the escape sequences carry ('[', ';',
\* '=' and the digits of the parameters).
C27_NoEscapeByteInPendingCommand ==
  (ran # "none" /\ session.special \in {GhostChunk, KeypadChunk} /\ session.enter = <<>> /\ ~session.trail) =>
    \A k \in 1..Len(PendingCommand) : PendingCommand[k] \notin {"[", ";", "="} \cup Digits

\* The commands a reader sees in the snapshot of the terminal: the text after the marker
\* of each second prompt line that follows a first prompt line.
SnapshotCommands ==
  LET ls == SplitLines(strip_ansi(get_output(Self)), <<>>)
      shown(k) == IF MarkerRest(ls[k + 1]) = None THEN <<>> ELSE Strip(Keep(MarkerRest(ls[k + 1]), Printable))
  IN {shown(k) : k \in {n \in 1..(Len(ls) - 1) : PromptSearch(ls[n] \o <<LF>> \o ls[n + 1]) /\ shown(n) # <<>>}}

\* C32: the snapshot-based extractors find the commands on the screen: for every two-line
\* prompt of the final snapshot that a command follows, HybridExtractor.process_events
\* returns a record of that command, and so does SmartExtractor.process_events when the
\* command passes its filter; the result is then not empty.
C32_SnapshotCommandsReturned ==
  ran \in {"HybridExtractor", "SmartExtractor"} =>
    \A c \in SnapshotCommands :
      (ran = "HybridExtractor" \/ SE_valid(c)) => \E n \in 1..Len(returned) : returned[n][1] = c

\* C40: no record returned by CommandExtractor.process_events has a command that is empty
\* or holds only whitespace, whatever the events: Enter at an empty prompt and a stream that
\* ends right after a prompt included.
C40_NoBlankCommandReturned ==
  ran = "CommandExtractor" => \A k \in 1..Len(returned) : Strip(returned[k][1]) # <<>>

\* C40 happens: only a space was typed at the prompt before Enter and the stream ended
\* there; the command was entered, and no record came back for it.
C40_BlankCommandRefused ==
  /\ ran = "CommandExtractor"
  /\ session.keys = << <<" ">> >> /\ session.special = <<>> /\ session.enter # <<>> /\ ~session.trail
  /\ extractor.command_entered
  /\ returned = <<>>

\* C28: batch and incremental use agree: one CommandExtractor fed the
\* events of a session through calls of process_events with one event each
\* holds the same list of commands as a CommandExtractor fed the whole
\* sequence in a single call.
C28_EachEventAsWholeSequence ==
  ran = "debug_extractor" => returned = CE_returned(CE_process_events(CE__init__, SessionEvents(session)))

\* ------------------------------------------------------------------------
\* Claims about the terminal
\* ------------------------------------------------------------------------
\* The last n entries of seq (all of it when it has fewer).
LastN(seq, n) == IF Len(seq) > n THEN SubSeq(seq, Len(seq) - n + 1, Len(seq)) ELSE seq

\* C1: in every state reached by feeding chunks to process_text on a fresh
\* Terminal, 0 <= current_line < height and cursor_x >= 0.
C1_CursorWithinGrid == 0 <= current_line /\ current_line < height /\ cursor_x >= 0

\* C2: process_text never raises, whatever the input and the grid state.
C2_ProcessTextNeverRaises == raised = FALSE

\* C3: after exactly height + K line-feeds (and nothing else) on a fresh
\* Terminal, with K > scrollback_size, scrollback holds exactly
\* scrollback_size rows: the most recent of the evicted ones.
C3_ScrollbackFilledToCap == (lf_run >= 0 /\ lf_run - height > scrollback_size) => (Len(scrollback) = scrollback_size /\ scrollback = LastN(evicted, scrollback_size))

\* C4: scrollback never holds more than scrollback_size rows, and it is
\* always the most recent rows evicted, in the order of their eviction
\* (the oldest are the ones dropped).
C4_ScrollbackBoundedOldestFirst == Len(scrollback) <= scrollback_size /\ scrollback = LastN(evicted, scrollback_size)

\* C6: a text fed to a fresh Terminal in two pieces, split anywhere, leaves
\* the same lines, scrollback and cursor as the text fed whole.
C6_SplitAnywhereSameGrid == fed = 1 => (twin.lines = lines /\ twin.scrollback = scrollback /\ twin.current_line = current_line /\ twin.cursor_x = cursor_x)

\* C4 witness: more rows were evicted than the cap holds, and the two rows
\* kept differ, so their order shows.
C4_EvictionPastCap == Len(evicted) > scrollback_size /\ Len(scrollback) = 2 /\ scrollback[1] # scrollback[2]

\* C20: when a line-feed is processed with the cursor on the bottom row,
\* the top visible row moves to the end of scrollback, the row count of the
\* grid stays the same and current_line indexes an existing blank last row.
\* (A step that adds one to lf_run fed the chunk <<LF>>.)
C20_BottomLineFeedKeepsRows ==
  [][(lf_run >= 0 /\ lf_run' = lf_run + 1 /\ current_line = height - 1) =>
       /\ evicted' = Append(evicted, lines[1])
       /\ Len(lines') = Len(lines)
       /\ current_line' < Len(lines')
       /\ lines'[current_line' + 1] = <<>>]_vars

\* C21: when process_text writes one character that brings cursor_x to width
\* with the cursor on the bottom row, the wrap scrolls as a line-feed at the
\* bottom does: the top visible row goes to scrollback, current_line stays
\* height - 1, cursor_x becomes 0 and the grid holds at most height rows.
C21_WrapAtBottomScrolls ==
  [][(Terminal_process_text(<<"a">>) /\ cursor_x = width - 1 /\ current_line = height - 1) =>
       /\ evicted' = Append(evicted, lines[1])
       /\ current_line' = height - 1
       /\ cursor_x' = 0
       /\ Len(lines') <= height]_vars

\* C22: a line-feed processed by process_text leaves cursor_x unchanged,
\* both when it advances the row and when it scrolls at the bottom row.
C22_LineFeedKeepsColumn ==
  [][Terminal_process_text(<<LF>>) => cursor_x' = cursor_x]_vars

\* C23: a CSI sequence whose final byte is not a handled command (ESC [ ? 25 h)
\* is consumed up to and including that byte and changes no grid state, and
\* the printable characters after it in the chunk are written to the grid:
\* the chunk leaves the grid that the characters after the sequence leave.
C23_UnhandledCsiThenText ==
  [][Terminal_process_text(CsiSeq(<<"?", "2", "5", "h", "a", "B">>)) =>
       LET t == process_text(Self, <<"a", "B">>)
       IN /\ lines' = t.lines /\ scrollback' = t.scrollback
          /\ current_line' = t.current_line /\ cursor_x' = t.cursor_x]_vars

\* C31: an erase-display with a mode other than 2 (ESC [ J) does not move
\* the cursor: it truncates the cursor's row at cursor_x and blanks the
\* rows below it; current_line, cursor_x, the rows above, the number of
\* rows and scrollback stay as they are.
C31_EraseToEndKeepsCursor ==
  [][(Terminal_process_text(CsiSeq(<<"J">>)) /\ 0 <= current_line /\ current_line < Len(lines)) =>
       /\ current_line' = current_line /\ cursor_x' = cursor_x
       /\ scrollback' = scrollback
       /\ Len(lines') = Len(lines)
       /\ \A k \in 1..Len(lines) :
            lines'[k] = IF k <= current_line THEN lines[k]
                        ELSE IF k = current_line + 1 THEN SubSeq(lines[k], 1, Min(cursor_x, Len(lines[k])))
                        ELSE <<>>]_vars

\* C35: after a tab processed by process_text, cursor_x is a multiple of
\* 8, for every width, those that are not a multiple of 8 included.
C35_TabStopsAtMultipleOfEight ==
  [][Terminal_process_text(<<TAB>>) => cursor_x' % 8 = 0]_vars

\* The observed call was process_text(text).
Observed(text) == called = "process_text" /\ arg = text

\* C37: a character written at column c of a row of length L is stored in place: it replaces
\* the character at c when c < L, and the row is padded with spaces up to c when c >= L;
\* nothing is shifted right, and every other existing row and scrollback are as before.
C37_WriteOverwritesInPlace ==
  (Observed(<<"a">>) /\ 0 <= out.current_line /\ out.current_line < Len(out.lines)) =>
    LET c == out.cursor_x
        row == out.lines[out.current_line + 1]
        new == lines[out.current_line + 1]
    IN /\ Len(lines) >= Len(out.lines)
       /\ Len(new) = Max(Len(row), c + 1)
       /\ new[c + 1] = "a"
       /\ \A k \in 1..Len(new) : k # c + 1 => new[k] = IF k <= Len(row) THEN row[k] ELSE " "
       /\ \A k \in 1..Len(out.lines) : k # out.current_line + 1 => lines[k] = out.lines[k]
       /\ scrollback = out.scrollback

\* C37 happens: a character was written over an existing one, before the end of its row.
C37_WroteInsideRow ==
  /\ Observed(<<"a">>) /\ 0 <= out.current_line /\ out.current_line < Len(out.lines)
  /\ out.cursor_x + 1 < Len(out.lines[out.current_line + 1])
  /\ Len(lines[out.current_line + 1]) = Len(out.lines[out.current_line + 1])

\* C38: a line feed that scrolls (cursor on the bottom row or below it, visible lines not
\* empty, scrollback below its cap) leaves scrollback ++ lines as it was, so get_output
\* returns the same rows before and after it.
C38_ScrollLosesNoContent ==
  (Observed(<<LF>>) /\ out.current_line >= height - 1 /\ Len(out.lines) > 0 /\ Len(out.scrollback) < scrollback_size) =>
    /\ scrollback \o lines = out.scrollback \o out.lines
    /\ get_output(Self) = get_output(out)

\* C38 happens: a line feed moved a row that holds text from the visible lines to scrollback.
C38_ScrolledTextRow ==
  /\ Observed(<<LF>>) /\ out.current_line >= height - 1 /\ Len(out.lines) > 0 /\ Len(out.scrollback) < scrollback_size
  /\ Len(scrollback) = Len(out.scrollback) + 1
  /\ out.lines[1] # <<>>
  /\ scrollback[Len(scrollback)] = out.lines[1]

\* The rows of scrollback ++ lines up to the last one that is not blank.
RowsToLastText ==
  LET rows == scrollback \o lines
      last == Least({k \in 0..Len(rows) : \A m \in (k + 1)..Len(rows) : Strip(rows[m]) = <<>>}, 0)
  IN SubSeq(rows, 1, last)

\* C39: get_output returns the scrollback rows followed by the visible lines, without the
\* blank rows at the end, joined by line feeds; it leaves lines, scrollback, current_line and
\* cursor_x as they were; a second call right after the first returns the same text.
C39_GetOutputReadOnly ==
  [][Terminal_get_output =>
       /\ out' = Join(RowsToLastText, <<LF>>)
       /\ UNCHANGED <<lines, scrollback, current_line, cursor_x>>
       /\ (called = "get_output" => out' = out)]_vars

\* C39 happens: get_output was called twice on a terminal with a row in scrollback, text
\* in the visible lines and a blank row at the end.
C39_SnapshotTakenTwice ==
  /\ called = "get_output twice"
  /\ scrollback # <<>> /\ Len(lines) > 1
  /\ Strip(lines[Len(lines)]) = <<>>
  /\ \E k \in 1..Len(lines) : Strip(lines[k]) # <<>>
  /\ out = arg /\ out # <<>>

\* C36 as stated: an erase of the whole screen (ESC [ 2 J) leaves
\* scrollback unchanged and sets the visible lines to a single blank row
\* with the cursor at row 0, column 0, and the rows of a snapshot taken
\* afterwards begin with every row evicted before.
C36_EraseAllKeepsEvictedRows ==
  Observed(CsiSeq(<<"2", "J">>)) =>
    /\ scrollback = out.scrollback
    /\ lines = << <<>> >> /\ current_line = 0 /\ cursor_x = 0
    /\ IsPrefix(evicted, DropTrailingBlank(scrollback \o lines))

\* C36 amended: the same for scrollback, lines and cursor, and the
\* snapshot taken afterwards is the rows that scrollback held before the
\* erase, without the blank rows at its end.
C36_EraseAllKeepsScrollback ==
  Observed(CsiSeq(<<"2", "J">>)) =>
    /\ scrollback = out.scrollback
    /\ lines = << <<>> >> /\ current_line = 0 /\ cursor_x = 0
    /\ get_output(Self) = Join(DropTrailingBlank(out.scrollback), <<LF>>)

\* C36 witness: the whole screen was erased with a row of text in
\* scrollback and the cursor away from the origin.
C36_ErasedWithScrollback ==
  /\ Observed(CsiSeq(<<"2", "J">>))
  /\ \E k \in 1..Len(out.scrollback) : Strip(out.scrollback[k]) # <<>>
  /\ out.current_line > 0
  /\ scrollback = out.scrollback

\* The cursor-move chunks among TermChunks, and those that move down.
CursorDownChunks == {CsiSeq(<<"B">>), CsiSeq(<<"2", "B">>)}
CursorMoveChunks == {CsiSeq(<<"A">>), CsiSeq(<<"C">>), CsiSeq(<<"D">>)} \cup CursorDownChunks

\* C24: after a cursor move (CSI A, B, C or D) applied in any reachable
\* state, current_line lies in 0..len(lines) - 1 and cursor_x >= 0, and a
\* cursor-down never leaves the cursor on a smaller row index.
C24_CursorMoveStaysInLines ==
  [][(\E text \in CursorMoveChunks : Terminal_process_text(text)) =>
       /\ 0 <= current_line' /\ current_line' <= Len(lines') - 1
       /\ cursor_x' >= 0
       /\ (\E text \in CursorDownChunks : Terminal_process_text(text)) => current_line' >= current_line]_vars

\* ------------------------------------------------------------------------
\* The text functions called on their own
\* ------------------------------------------------------------------------
\* The pieces of a text handed to strip_ansi: plain printable runs, CSI
\* sequences (two of them with the private-mode parameter byte '?') and an
\* OSC sequence ended by BEL.
PlainRuns == {<<"a">>, <<"l", "s", " ">>}
AnsiPieces == PlainRuns \cup {CsiSeq(<<"1", "m">>), CsiSeq(<<"2", ";", "3", "H">>), CsiSeq(<<"?", "2", "0", "0", "4", "h">>), CsiSeq(<<"?", "2", "5", "l">>), <<ESC, "]", "0", ";", "t", BEL>>}

\* The pieces of a line handed to detect_prompt: prompt markers, a host
\* part, words and blanks.
LinePieces == {<<"$", " ">>, <<"#", " ">>, <<">", " ">>, <<"$">>, <<"u", "@", "h", ":", "~">>, <<"P", "S", " ", "C">>, <<"l", "s">>, <<" ">>, PromptChunk}

\* The lines of an output handed to DirectExtractor._clean_output: blank
\* lines, lines of a listing, a word and the same word typed further, and
\* the empty-line marker of vim.
OutputLines == {<<>>, <<" ">>, <<"t", "o", "t", "a", "l", " ", "0">>, <<"f", "i", "l", "e", "1">>, <<"h", "e", "l", "l", "o">>, <<"h", "e", "l", "l", "o", " ", "w", "o", "r", "l", "d">>, <<"~">>}

\* arg holds the pieces of the text; the text is their concatenation.
PiecesOf(set) == \A k \in 1..Len(arg) : arg[k] \in set
Text == Join(arg, <<>>)

FnInit ==
  /\ SegFresh /\ TermFresh
  /\ arg \in SeqsUpTo(AnsiPieces, MaxPieces) \cup SeqsUpTo(LinePieces, MaxPieces) \cup SeqsUpTo(OutputLines, MaxPieces)
  /\ out = <<>>
  /\ called = "none"

\* One call of strip_ansi(text).
Ansi_strip_ansi ==
  /\ called = "none" /\ PiecesOf(AnsiPieces)
  /\ called' = "strip_ansi"
  /\ out' = strip_ansi(Text)
  /\ UNCHANGED arg
  /\ UNCHANGED <<termVars, segVars>>

\* detect_prompt(line) and, when it finds a prompt, extract_command(line,
\* prompt): out is <<>> when no prompt is found, else the prompt, its start
\* offset and what extract_command returned (None for none).
Detector_extract_command ==
  /\ called = "none" /\ PiecesOf(LinePieces)
  /\ called' = "extract_command"
  /\ out' = LET d == detect_prompt(Text) IN IF d = <<>> THEN <<>> ELSE <<d[1], d[2], extract_command(Text, d[1])>>
  /\ UNCHANGED arg
  /\ UNCHANGED <<termVars, segVars>>

\* One call of DirectExtractor._clean_output on the lines joined by
\* line-feeds.
DirectExtractor_clean_output ==
  /\ called = "none" /\ PiecesOf(OutputLines)
  /\ called' = "_clean_output"
  /\ out' = DE_clean_output(Join(arg, <<LF>>))
  /\ UNCHANGED arg
  /\ UNCHANGED <<termVars, segVars>>

FnNext == Ansi_strip_ansi \/ Detector_extract_command \/ DirectExtractor_clean_output

SpecFn == FnInit /\ [][FnNext]_vars

\* ------------------------------------------------------------------------
\* The program run on a cast file
\* ------------------------------------------------------------------------
\* The chunks echoed for a command line: a long command and a shorter one
\* that it contains, each echoed whole; a two-letter command typed key by
\* key; a typed letter followed by the gray suggestion; a command line
\* that the fix-up loop of process_cast_file names.
CommandEchoes == {<<<<"l", "s", " ", "-", "l", "a", " ", "/", "t", "m", "p">>>>, <<<<"l", "s", " ", "-", "l", "a">>>>, <<<<"l">>, <<"s">>>>, <<<<"a">>, GhostChunk>>,
                  <<<<"d", "i", "r", " ", ".", ".", "/", "h", "e", "r", "c", "u", "l", "e", "s">>>>,
                  <<<<"7", "z", " ", "x", " ", "a">>>>}

\* The command lines that are echoed whole, as one chunk.
WholeEchoes == {e \in CommandEchoes : Len(e) = 1}

\* The lines that are not events of the session: none, an event with two
\* fields, a line that is no JSON, a blank line, a JSON number.
ExtraLines == {<<>>, << <<"array", <<0, "o">>>> >>, << <<"malformed">> >>, << <<"blank">> >>, << <<"scalar">> >>}

\* The prompt chunks a shell shows: none, the two-line prompt of the
\* recordings the program was written for, a plain '$ '.
PromptStyles == {<<>>, <<PromptChunk>>, << <<"$", " ">> >>}

\* The cast file of a session: for each command the prompt (when the shell
\* shows one), the echo, the chunk of Enter and a line of output; a burst
\* of input events after the first chunk; the extra line first.  The
\* timestamp of an event is its index, in seconds.
CastFile(cmds, prompt, burst, extra) ==
  LET texts == Join([k \in 1..Len(cmds) |-> prompt \o cmds[k] \o <<<<CR, LF>>, <<"t", "o", "t", "a", "l", " ", "0">> \o <<CR, LF>>>>], <<>>) \o prompt
      outs == [k \in 1..Len(texts) |-> <<"o", texts[k]>>]
      all == IF Len(outs) = 0 THEN <<>> ELSE <<outs[1]>> \o [k \in 1..burst |-> <<"i", <<"x">>>>] \o Tail(outs)
  IN extra \o [k \in 1..Len(all) |-> <<"array", <<k, all[k][1], all[k][2]>>>>]

CastInit ==
  /\ SegFresh /\ TermFresh
  /\ arg \in {CastFile(c, p, b, x) : c \in SeqsUpTo(CommandEchoes, MaxCommands), p \in PromptStyles, b \in {0, MaxInputs}, x \in ExtraLines}
  /\ out = <<>>
  /\ called = "none"

\* parse_cast_file on the file.
Parser_parse_cast_file ==
  /\ called = "none"
  /\ called' = "parse_cast_file"
  /\ out' = parse_cast_file(arg)
  /\ UNCHANGED arg
  /\ UNCHANGED <<termVars, segVars>>

\* DirectExtractor().process_events on the events of the file, and on the
\* same events with every event that is not an output event deleted.
DirectExtractor_process_events ==
  /\ called = "none"
  /\ ~parse_cast_file(arg).raised
  /\ called' = "process_events"
  /\ out' = LET events == parse_cast_file(arg).events
                returned_for == [only_output \in BOOLEAN |-> DE_process_events(IF only_output THEN SelectSeq(events, LAMBDA ev : ev[2] = "o") ELSE events)]
            IN <<returned_for[FALSE], returned_for[TRUE]>>
  /\ UNCHANGED arg
  /\ UNCHANGED <<termVars, segVars>>

\* The orders in which a set of that many strings can yield them.
Orders(cmds) == {o \in [1..Cardinality(cmds) -> cmds] : \A a, b \in 1..Cardinality(cmds) : a # b => o[a] # o[b]}

\* The strings that the set seen of the filter loop can hold: the
\* commands of the records, normalised.
SeenOf(records) == {Strip(NormalizeSpaces(records[k][1])) : k \in 1..Len(records)}

\* process_cast_file on the file; the set seen of its filter loop yields
\* its elements in an order that the hashes of the strings decide.
Main_process_cast_file ==
  /\ called = "none"
  /\ called' = "process_cast_file"
  /\ LET parsed == parse_cast_file(arg)
         run(records) == \E order \in Orders(SeenOf(records)) : out' = PCF_records(parsed.events, records, order)
     IN IF parsed.raised THEN out' = [raised |-> TRUE, records |-> <<>>] ELSE run(DE_process_events(parsed.events))
  /\ UNCHANGED arg
  /\ UNCHANGED <<termVars, segVars>>

CastNext == Parser_parse_cast_file \/ DirectExtractor_process_events \/ Main_process_cast_file

SpecCast == CastInit /\ [][CastNext]_vars

\* ------------------------------------------------------------------------
\* The program run twice on one recording
\* ------------------------------------------------------------------------
\* Command lines of which the last is part of the other two.
NestedEchoes == {<<"l", "s", " ", "-", "l", "a", " ", "/", "t", "m", "p">>, <<"c", "a", "t", " ", "l", "s", " ", "-", "l", "a">>, <<"l", "s", " ", "-", "l", "a">>}

TwiceInit ==
  /\ SegFresh /\ TermFresh
  /\ arg \in {CastFile([k \in 1..Len(c) |-> <<c[k]>>], p, 0, <<>>) : c \in SeqsUpTo(NestedEchoes, MaxSeen), p \in PromptStyles}
  /\ out = <<>>
  /\ called = "none"

\* process_cast_file on the file, in two runs of the program: the set
\* seen of the filter loop yields its elements in an order that the
\* hashes of the strings decide, and the hashes differ from run to run.
Main_process_cast_file_twice ==
  /\ called = "none"
  /\ called' = "process_cast_file twice"
  /\ LET parsed == parse_cast_file(arg)
         run(records) == \E first \in Orders(SeenOf(records)), second \in Orders(SeenOf(records)) :
                           out' = <<PCF_records(parsed.events, records, first), PCF_records(parsed.events, records, second)>>
     IN run(DE_process_events(parsed.events))
  /\ UNCHANGED arg
  /\ UNCHANGED <<termVars, segVars>>

TwiceNext == Main_process_cast_file_twice

SpecTwice == TwiceInit /\ [][TwiceNext]_vars

\* ------------------------------------------------------------------------
\* A command with many events before the next prompt
\* ------------------------------------------------------------------------
\* The events that lie between the command and the last line of its
\* output: blank lines of output, redraws of the line (output that is an
\* escape sequence), or keystrokes (input events).
BetweenEvents == {<<"o", <<CR, LF>>>>, <<"o", CsiSeq(<<"K">>)>>, <<"i", <<"x">>>>}

\* The last line of the command's output.
LastLine == <<"e", "n", "d">>

\* The numbers of events between: few, and as many as the look-ahead of
\* _find_output_for_command and around.
BetweenCounts == 0..3 \cup (MaxBetween - 3)..MaxBetween

\* The cast file of one command: the prompt, the command echoed whole,
\* the chunk of Enter, n times the event between, the last line of the
\* output and the prompt again.
LongFile(cmd, prompt, between, n) ==
  LET all == <<<<"o", prompt>>, <<"o", cmd>>, <<"o", <<CR, LF>>>>>> \o [k \in 1..n |-> between] \o <<<<"o", LastLine \o <<CR, LF>>>>, <<"o", prompt>>>>
  IN [k \in 1..Len(all) |-> <<"array", <<k, all[k][1], all[k][2]>>>>]

LongInit ==
  /\ SegFresh /\ TermFresh
  /\ arg \in {LongFile(c[1], p[1], b, n) : c \in WholeEchoes, p \in PromptStyles \ {<<>>}, b \in BetweenEvents, n \in BetweenCounts}
  /\ out = <<>>
  /\ called = "none"

\* DirectExtractor().process_events on the events of the file.
DirectExtractor_process_long ==
  /\ called = "none"
  /\ called' = "DirectExtractor"
  /\ out' = DE_process_events(parse_cast_file(arg).events)
  /\ UNCHANGED arg
  /\ UNCHANGED <<termVars, segVars>>

LongNext == DirectExtractor_process_long

SpecLong == LongInit /\ [][LongNext]_vars

\* The output chunks of the file.
OutputChunks == LET events == parse_cast_file(arg).events IN {events[k][3] : k \in {m \in 1..Len(events) : events[m][2] = "o"}}

\* The session's rendered text: what the Terminal shows after the output
\* chunks of the file, escape sequences stripped.
RenderedText == strip_ansi(get_output(PCF_replay(Terminal__init__(DefaultWidth, DefaultHeight, DefaultScrollback), parse_cast_file(arg).events, 1)))

\* C11: when no output chunk of the session matches a prompt pattern,
\* process_cast_file hands the renderer exactly one record, with command
\* none and the session's rendered text as output; the list is neither
\* empty nor is an error raised.
C11_NoPromptGivesOneUnattributedRecord ==
  (/\ called = "process_cast_file"
   /\ ~parse_cast_file(arg).raised
   /\ OutputChunks # {}
   /\ \A text \in OutputChunks : detect_prompt(text) = <<>> /\ ~PromptStart(text)) =>
    (~out.raised /\ out.records = << <<None, RenderedText>> >>)

\* The lines of the file that are events with fewer than three fields.
ShortEvents == {k \in 1..Len(arg) : arg[k][1] = "array" /\ Len(arg[k][2]) < 3}

\* C12: structurally invalid input fails fast: when an event of the file
\* has fewer than three fields, parse_cast_file stops with an error that
\* names the index of the first such event; the event is never skipped.
C12_ShortEventFailsFast ==
  (called = "parse_cast_file" /\ ShortEvents # {}) =>
    (out.raised /\ out.index \in ShortEvents /\ \A k \in ShortEvents : out.index <= k)


\* C14: one record per submitted command: for a session with a prompt
\* before each command, each command echoed whole, the records that
\* process_cast_file builds carry the submitted commands, one record per
\* submission in the order of submission: a command submitted twice gives
\* two records, and a command that contains another appears beside it.
C14_OneRecordPerSubmission ==
  (called = "process_cast_file" /\ ~out.raised) =>
    \A c \in SeqsUpTo(WholeEchoes, MaxCommands), p \in PromptStyles \ {<<>>}, b \in {0, MaxInputs}, x \in ExtraLines :
      arg = CastFile(c, p, b, x) => [k \in 1..Len(out.records) |-> out.records[k][1]] = [k \in 1..Len(c) |-> c[k][1]]

\* C33: every command that DirectExtractor.process_events returns begins with a letter: a
\* chunk that looks like a complete command and starts with a digit or another character
\* that is no letter is never recorded.
C33_ReturnedCommandsStartWithLetter ==
  called = "process_events" => \A k \in 1..Len(out[1]) : out[1][k][1] # <<>> /\ out[1][k][1][1] \in Alpha

\* C34: when the filter of process_cast_file meets two candidate commands of which one is
\* part of the other, the records keep the longer one and not the shorter one, whichever
\* of the two comes first.
C34_FilterKeepsLongerVariant ==
  (called = "process_cast_file" /\ ~out.raised) =>
    LET candidates == DE_process_events(parse_cast_file(arg).events)
        kept == {out.records[k][1] : k \in 1..Len(out.records)}
    IN \A i, j \in 1..Len(candidates) :
         (Len(candidates[i][1]) > Len(candidates[j][1]) /\ Contains(candidates[i][1], candidates[j][1])) =>
           (candidates[i][1] \in kept /\ candidates[j][1] \notin kept)

\* C13: non-output events are ignored: deleting every event whose
\* direction is not 'o' does not change the list of records that
\* DirectExtractor.process_events returns.
C13_InputEventsIgnored == called = "process_events" => out[1] = out[2]

\* C15: every record that process_cast_file passes to the renderer has a
\* command of at least the minimum length, on the DirectExtractor path and
\* on the fallback path alike.
C15_RecordsHaveMinimumLength ==
  (called = "process_cast_file" /\ ~out.raised) => \A k \in 1..Len(out.records) : Len(out.records[k][1]) >= MinCommandLength

RECURSIVE PlainOf(_)
\* The concatenation of the plain runs among the pieces.
PlainOf(pieces) == IF Len(pieces) = 0 THEN <<>> ELSE (IF pieces[1] \in PlainRuns THEN pieces[1] ELSE <<>>) \o PlainOf(Tail(pieces))

\* C19: strip_ansi removes every escape sequence in full: for a text of
\* plain printable runs interleaved with CSI sequences (private-mode ones
\* included) and BEL-terminated OSC sequences, the result is exactly the
\* concatenation of the plain runs.
C19_StripAnsiLeavesPlainRuns == called = "strip_ansi" => out = PlainOf(arg)

\* The text that follows the prompt found in the line, trimmed (None when
\* nothing is left).
AfterPrompt ==
  LET rest == Strip(SubSeq(Text, out[2] + Len(out[1]) + 1, Len(Text)))
  IN IF rest # <<>> THEN rest ELSE None

\* C18 as stated: wherever detect_prompt finds the prompt, at offset 0 or
\* later, extract_command returns the trimmed text that follows it (none
\* when empty).
C18_ExtractAfterPromptAnywhere == (called = "extract_command" /\ out # <<>>) => out[3] = AfterPrompt

\* C18 amended: extract_command returns the trimmed text that follows the
\* prompt (none when empty) when the prompt is found at offset 0, and none
\* when it is found at a later offset.
C18_ExtractAfterLeadingPrompt ==
  (called = "extract_command" /\ out # <<>>) => out[3] = (IF out[2] = 0 THEN AfterPrompt ELSE None)

\* C18 witness: a line that starts with the prompt '$ ' and goes on with a
\* command.
C18_LeadingPromptThenCommand ==
  /\ called = "extract_command" /\ out # <<>>
  /\ out[1] = <<"$", " ">> /\ out[2] = 0
  /\ out[3] = <<"l", "s">>

\* The lines of the result (none for the empty result).
OutLines == IF out = <<>> THEN <<>> ELSE SplitLines(out, <<>>)

\* The non-blank lines of ls, in order.
NonBlank(ls) == SelectSeq(ls, LAMBDA l : Strip(l) # <<>>)

RECURSIVE CollapseBlank(_)
\* ls with every run of blank lines replaced by one empty line.
CollapseBlank(ls) ==
  IF Len(ls) = 0 THEN <<>>
  ELSE IF Strip(ls[1]) # <<>> THEN <<ls[1]>> \o CollapseBlank(Tail(ls))
       ELSE IF Len(ls) > 1 /\ Strip(ls[2]) = <<>> THEN CollapseBlank(Tail(ls))
            ELSE << <<>> >> \o CollapseBlank(Tail(ls))

\* C16: _clean_output collapses blank lines rather than deleting them:
\* when every non-blank line of the input is retained, the result is those
\* lines with exactly one blank line wherever the input had a run of blank
\* lines between two of them, and no leading or trailing blank line.
C16_BlankRunsCollapseToOne ==
  (called = "_clean_output" /\ NonBlank(OutLines) = NonBlank(arg)) =>
    [k \in 1..Len(OutLines) |-> IF Strip(OutLines[k]) = <<>> THEN <<>> ELSE OutLines[k]] = CollapseBlank(DropTrailingBlank(DropLeadingBlank(arg)))

\* C17: the artifact filter is stateless: a non-blank line that
\* _clean_output keeps when it is the only line of the output is kept
\* wherever it stands among other lines.
C17_KeptAloneKeptAnywhere ==
  called = "_clean_output" =>
    \A k \in 1..Len(arg) : (Strip(arg[k]) # <<>> /\ DE_clean_output(arg[k]) = arg[k]) => \E m \in 1..Len(OutLines) : OutLines[m] = arg[k]

\* C26: output collection is complete: for a command that DirectExtractor
\* detects, the record's output includes the text of every output event
\* between the command and the next prompt, however many events lie
\* between: the visible text of the events between, and the last line.
C26_OutputCollectedUpToPrompt ==
  (called = "DirectExtractor" /\ out # <<>>) =>
    LET events == parse_cast_file(arg).events
        between == {events[k][3] : k \in {m \in 4..(Len(events) - 2) : events[m][2] = "o"}}
    IN /\ \A text \in between : Strip(strip_ansi(text)) # <<>> => \E i \in 1..Len(out[1][2]) : HasAt(out[1][2], Strip(strip_ansi(text)), i)
       /\ \E i \in 1..Len(out[1][2]) : HasAt(out[1][2], LastLine, i)

\* C29: the duplicate filter of process_cast_file is deterministic: for
\* one recording the records do not depend on the order in which the set
\* seen yields its elements, so two runs of the program give the same
\* records.
C29_FilterIndependentOfSeenOrder ==
  called = "process_cast_file twice" => out[1] = out[2]

\* C30: every record that process_cast_file builds is derived from the
\* events of the session: its command is text that the session shows
\* (text of the rendered session), never a constant of the program.
C30_RecordsRecoveredFromSession ==
  (called = "process_cast_file" /\ ~out.raised) =>
    \A k \in 1..Len(out.records) : Contains(RenderedText, out.records[k][1])

====
